---- MODULE Spec2Model ----
(***************************************************************************)
(* txray: the calldata resolution engine.                                  *)
(*   src/src/decoder-registry.ts  the decoder plugin registry              *)
(*   src/src/decode.ts            decodeCalldata, nested-call detection    *)
(*   src/unnamed/part_000         the selector cache (selectors.ts)        *)
(* Hex strings are modelled byte by byte for the selector and word by word *)
(* for the ABI-encoded body; an optional value (undefined in the source)   *)
(* is a sequence of length 0 or 1.                                         *)
(***************************************************************************)
EXTENDS Integers, Sequences, FiniteSets, TLC

VARIABLES
    registeredDecoders, \* decoder-registry.ts:33, entries [dec, origin, stamp]
    ALL_ABIS,           \* abis.ts: the merged catalog
    cache,              \* selectors.ts:13, null until loaded
    cacheModified,      \* selectors.ts:14
    file,               \* the persisted selectors.json
    pc,                 \* where the decodeCalldata call in progress stands
    payload,            \* the data of the call in progress or last made
    found,              \* the outcome of the last findDecoder call
    pluginResult,       \* the outcome of the last decodeWithPlugins call
    signatures,         \* decode.ts:251, what lookupSelector returned
    result,             \* what the last decodeCalldata call returned or raised
    log,                \* the calls the call in progress made, in order
    previous,           \* history: the outcome of the call before, when it had
                        \* the same payload
    selectorArg,        \* the argument of the selectors.ts call in progress
    returned,           \* what the last selectors.ts call returned or raised
    queried,            \* history: remote lookups per selector since the
                        \* last clearCache
    fileReads,          \* history: reads of selectors.json, 2 for "more
                        \* than one"
    callers,            \* the lookupSelector calls in progress side by side
    completions,        \* history: the callers in the order they completed
    snapshot,           \* the list a getDecoders call returned, if any
    registryOp,         \* history: the last operation on the registry
    loadedFrom,         \* history: the directories of the loadAllDecoders
                        \* call, while it is the last operation
    abiDir,             \* the abi/ directory loadAbis reads
    abiFiles,           \* loadAbis: the files still to import
    abisPc,             \* loadAbis: "idle", "import" or "done"
    knownTopics,        \* abis.ts: knownTopics
    knownContracts,     \* abis.ts: knownContracts
    retry,              \* the withRetry call in progress
    manager,            \* the RpcManager, with the history of its calls
    detect              \* a detectNestedCalls call: its args and its result

selectorVars == <<selectorArg, returned, queried, fileReads>>

\* The variables of the parts further down that the parts above leave alone.
concurrentVars == <<callers, completions>>
snapshotVars == <<snapshot, registryOp, loadedFrom>>
abisVars == <<abiDir, abiFiles, abisPc, knownTopics, knownContracts>>
retryVars == <<retry>>
laterVars == <<manager, detect>>
restVars == <<concurrentVars, snapshotVars, abisVars, retryVars, laterVars>>

vars == <<registeredDecoders, ALL_ABIS, cache, cacheModified, file, pc, payload,
          found, pluginResult, signatures, result, log, previous, selectorVars,
          restVars>>

---------------------------------------------------------------------------
(* Bounds of the model. *)

\* The registry holds at most this many entries.
MaxDecoders == 3

\* A selector is looked up remotely at most this many times between two
\* clearCache calls.
MaxQueries == 2

---------------------------------------------------------------------------
(* Optional values. *)

None == <<>>
Some(x) == <<x>>
IsSome(o) == Len(o) = 1
Get(o) == o[1]

---------------------------------------------------------------------------
(* Hex strings.  A payload "0x" ++ sel ++ body ++ tail: sel holds the first *)
(* bytes (at most 4) as two-character hex pairs, body the 32-byte words    *)
(* that follow, tail the number of bytes after the last whole word.        *)

\* String.prototype.toLowerCase on one hex pair.
ToLowerPair(b) ==
    CASE b = "A9" -> "a9"
      [] b = "9C" -> "9c"
      [] b = "BB" -> "bb"
      [] b = "C5" -> "c5"
      [] b = "EA" -> "ea"
      [] b = "BE" -> "be"
      [] OTHER -> b

ToLowerCase(s) == [i \in 1..Len(s) |-> ToLowerPair(s[i])]

NoHex == [sel |-> <<>>, body |-> <<>>, tail |-> 0]

Word(n) == [kind |-> "word", n |-> n, hex |-> NoHex]
Bytes(h) == [kind |-> "bytes", n |-> 0, hex |-> h]

Hex(sel, body) == [sel |-> sel, body |-> body, tail |-> 0]

RECURSIVE ByteLen(_)
RECURSIVE WordsOf(_)
\* The number of 32-byte words the ABI encoding of a body takes: one per
\* static word; an offset, a length and the padded content per byte string.
WordsOf(body) ==
    IF body = <<>> THEN 0
    ELSE LET e == Head(body)
             own == IF e.kind = "word" THEN 1
                    ELSE 2 + ((ByteLen(e.hex) + 31) \div 32)
         IN own + WordsOf(Tail(body))

ByteLen(h) == Len(h.sel) + 32 * WordsOf(h.body) + h.tail

\* data.length of a 0x-prefixed hex string.
Length(h) == 2 + 2 * ByteLen(h)

TRANSFER_SELECTOR == <<"a9", "05", "9c", "bb">>
EXECUTE_SELECTOR == <<"09", "c5", "ea", "be">>
UNKNOWN_SELECTOR == <<"12", "34", "56", "78">>

\* data.slice(0, 10) without the 0x prefix: the first four bytes at most.
Slice0to10(h) == h.sel

---------------------------------------------------------------------------
(* Decoded values.  A bigint, a string that holds hex characters (with or   *)
(* without the 0x prefix), or undefined.                                   *)

BigInt(n) == [kind |-> "bigint", n |-> n, prefixed |-> FALSE, hex |-> NoHex]
HexString(h) == [kind |-> "string", n |-> 0, prefixed |-> TRUE, hex |-> h]
Undefined == [kind |-> "undefined", n |-> 0, prefixed |-> FALSE, hex |-> NoHex]

\* The 20-byte string of an address whose number is below 2^128: its first
\* four bytes are zero, sixteen more follow.
Address(n) ==
    [kind |-> "string", n |-> n, prefixed |-> TRUE,
     hex |-> [sel |-> <<"00", "00", "00", "00">>, body |-> <<>>, tail |-> 16]]

\* Mutation: data.slice(2), only the 0x prefix is dropped.
Slice2(h) ==
    [kind |-> "string", n |-> 0, prefixed |-> FALSE, hex |-> h]

\* data.slice(10): the characters after the selector, without a 0x prefix.
Slice10(h) ==
    [kind |-> "string", n |-> 0, prefixed |-> FALSE,
     hex |-> [sel |-> <<>>, body |-> h.body, tail |-> h.tail]]

\* The words of an encoded body as numbers: a head word per element (the
\* word itself, or the offset of a byte string's content), then per byte
\* string its length and its content words (whose number is not modelled: -1).
RECURSIVE TailWords(_)
TailWords(body) ==
    IF body = <<>> THEN <<>>
    ELSE LET e == Head(body) IN
         (IF e.kind = "word" THEN <<>>
          ELSE <<ByteLen(e.hex)>>
               \o [k \in 1..((ByteLen(e.hex) + 31) \div 32) |-> -1])
         \o TailWords(Tail(body))

RawWords(body) ==
    [i \in 1..Len(body) |->
        IF body[i].kind = "word" THEN body[i].n
        ELSE 32 * (Len(body) + Len(TailWords(SubSeq(body, 1, i - 1))))]
    \o TailWords(body)

---------------------------------------------------------------------------
(* Decoder plugins: the objects a source module or a caller can supply.    *)

\* The params of decoders/example.decoder.ts (no label is attached: the
\* label map of the model is empty): characters 34 to 74 are the low 20 bytes
\* of the first word, characters 74 to 138 the second word.
ExampleParams(data) ==
    <<[name |-> "to", type |-> "address", value |-> Address(RawWords(data.body)[1])],
      [name |-> "amount", type |-> "uint256", value |-> BigInt(RawWords(data.body)[2])]>>

\* match of decoders/example.decoder.ts.
ExampleMatch(data, selector) ==
    Len(data.sel) = 4 /\ ToLowerCase(data.sel) = selector

\* decode of decoders/example.decoder.ts: null under 138 characters.
\* "ok" is a result, "null" the null return, "raise" a thrown exception.
ExampleDecode(data, name) ==
    IF Length(data) < 138 THEN [kind |-> "null", value |-> None]
    ELSE [kind |-> "ok",
          value |-> Some([name |-> name, params |-> ExampleParams(data),
                          nested |-> None])]

\* The decoder objects of the model.  priority is optional; matchKind and
\* decodeKind say how match and decode behave.
DecoderPool ==
    <<[name |-> "erc20-hi", priority |-> Some(10), matchKind |-> "selector",
       selector |-> TRANSFER_SELECTOR, decodeKind |-> "example"],
      [name |-> "erc20-lo", priority |-> Some(5), matchKind |-> "selector",
       selector |-> TRANSFER_SELECTOR, decodeKind |-> "example"],
      [name |-> "no-priority", priority |-> None, matchKind |-> "selector",
       selector |-> TRANSFER_SELECTOR, decodeKind |-> "example"],
      [name |-> "thrower", priority |-> Some(5), matchKind |-> "selector",
       selector |-> TRANSFER_SELECTOR, decodeKind |-> "raise"],
      [name |-> "bad-match", priority |-> Some(0), matchKind |-> "raise",
       selector |-> TRANSFER_SELECTOR, decodeKind |-> "example"],
      [name |-> "batch", priority |-> Some(-1), matchKind |-> "selector",
       selector |-> EXECUTE_SELECTOR, decodeKind |-> "nested"],
      [name |-> "custom", priority |-> Some(1), matchKind |-> "selector",
       selector |-> UNKNOWN_SELECTOR, decodeKind |-> "example"]>>

DecoderIds == 1..Len(DecoderPool)

\* decoder.match(data, context): "true", "false" or "raise".
Match(d, data) ==
    LET dec == DecoderPool[d] IN
    IF dec.matchKind = "raise" THEN "raise"
    ELSE IF ExampleMatch(data, dec.selector) THEN "true" ELSE "false"

\* decoder.decode(data, context).
Decode(d, data) ==
    LET dec == DecoderPool[d] IN
    CASE dec.decodeKind = "raise" -> [kind |-> "raise", value |-> None]
      [] dec.decodeKind = "nested" ->
            [kind |-> "ok",
             value |-> Some([name |-> dec.name,
                             params |-> <<[name |-> "calls", type |-> "bytes",
                                           value |-> IF data.body = <<>>
                                                        \/ data.body[1].kind # "bytes"
                                                     THEN Undefined
                                                     ELSE HexString(data.body[1].hex)]>>,
                             nested |-> Some(<<[name |-> "inner",
                                                params |-> <<>>],
                                               [name |-> "last",
                                                params |-> <<[name |-> "value",
                                                              type |-> "uint256",
                                                              value |-> BigInt(1)]>>]>>)])]
      [] OTHER -> ExampleDecode(data, dec.name)

---------------------------------------------------------------------------
(* decoder-registry.ts *)

\* decoder.priority ?? 0
PriorityOf(d) ==
    LET p == DecoderPool[d].priority IN IF IsSome(p) THEN Get(p) ELSE 0

\* Mutation: the comparator with its operands exchanged.
CompareAscending(a, b) == PriorityOf(a.dec) - PriorityOf(b.dec)

\* (b.priority ?? 0) - (a.priority ?? 0)
Compare(a, b) == PriorityOf(b.dec) - PriorityOf(a.dec)

\* Mutation: a sort that is not stable, an element goes in front of its equals.
RECURSIVE InsertSortedUnstable(_, _)
InsertSortedUnstable(sorted, x) ==
    IF sorted = <<>> THEN <<x>>
    ELSE IF PriorityOf(Head(sorted).dec) > PriorityOf(x.dec)
         THEN <<Head(sorted)>> \o InsertSortedUnstable(Tail(sorted), x)
         ELSE <<x>> \o sorted

\* Array.prototype.sort is stable: an element goes behind every element that
\* does not compare greater than it.
RECURSIVE InsertSorted(_, _)
InsertSorted(sorted, x) ==
    IF sorted = <<>> THEN <<x>>
    ELSE IF Compare(Head(sorted), x) <= 0
         THEN <<Head(sorted)>> \o InsertSorted(Tail(sorted), x)
         ELSE <<x>> \o sorted

RECURSIVE SortDecoders(_)
SortDecoders(list) ==
    IF list = <<>> THEN <<>>
    ELSE InsertSorted(SortDecoders(SubSeq(list, 1, Len(list) - 1)),
                      list[Len(list)])

\* Entries carry two history values the source does not store: where the
\* decoder came from and the rank of its arrival in the list (the order of
\* discovery or registration).
From(ids, origin) == [i \in 1..Len(ids) |-> [dec |-> ids[i], origin |-> origin]]

Pushed(list, items) ==
    list \o [i \in 1..Len(items) |->
                [dec |-> items[i].dec, origin |-> items[i].origin,
                 stamp |-> Len(list) + i]]

\* What loadDecodersFromDir returns for a directory: the decoders its modules
\* export, in discovery order.
DirListings ==
    {<<>>, <<1>>, <<2, 1>>, <<3>>, <<4, 6>>, <<5>>, <<2, 2>>, <<7>>, <<4, 3>>}

\* What a module exports under a key: a decoder of the pool, or a value that
\* is no decoder (an object without match, a function, a number, null).
Exported(key, d) ==
    [key |-> key, type |-> "object", hasName |-> TRUE, hasMatch |-> TRUE, dec |-> d]
NameOnly(key) ==
    [key |-> key, type |-> "object", hasName |-> TRUE, hasMatch |-> FALSE, dec |-> 0]
Other(key, type) ==
    [key |-> key, type |-> type, hasName |-> type = "function", hasMatch |-> FALSE,
     dec |-> 0]

\* A file of a decoders directory: whether its name ends in .decoder.ts or
\* .decoder.js, whether importing it throws, and its exports in the order
\* of Object.entries.
Module(isDecoderFile, imports, exports) ==
    [isDecoderFile |-> isDecoderFile, imports |-> imports, exports |-> exports]

Broken == Module(TRUE, FALSE, <<>>)
Readme == Module(FALSE, TRUE, <<Exported("default", 4)>>)
Shapeless ==
    Module(TRUE, TRUE, <<NameOnly("default"), Other("helper", "function"),
                         Other("nothing", "null"), Other("version", "number")>>)

\* decoders/example.decoder.ts: `export const exampleDecoder` and
\* `export default exampleDecoder`, one object under two keys.
ExampleModule ==
    Module(TRUE, TRUE, <<Exported("default", 1), Exported("exampleDecoder", 1)>>)

\* The directories of the model: "missing" (existsSync is false),
\* "unreadable" (readdirSync throws) or "ok" with its files.
Directories ==
    {[kind |-> "missing", files |-> <<>>],
     [kind |-> "unreadable", files |-> <<Module(TRUE, TRUE, <<Exported("default", 1)>>)>>],
     [kind |-> "ok", files |-> <<Broken, Module(TRUE, TRUE, <<Exported("default", 1)>>)>>],
     [kind |-> "ok", files |-> <<Module(TRUE, TRUE, <<Exported("batch", 6),
                                                     Exported("decoder", 3)>>),
                                 Shapeless>>],
     [kind |-> "ok", files |-> <<Shapeless, Readme,
                                 Module(TRUE, TRUE, <<Exported("decoder", 2),
                                                      NameOnly("default")>>),
                                 Broken>>],
     [kind |-> "ok", files |-> <<ExampleModule>>]}

\* Lines 50-57, 61-68 and 72-79: typeof value === 'object', not null, with
\* name and match.
HasDecoderShape(value) ==
    value.type = "object" /\ value.hasName /\ value.hasMatch

\* Lines 50-81: the decoders one imported module gives: default, then
\* decoder, then every other export.
DecodersOfModule(mod) ==
    LET pick(keep(_)) ==
            SelectSeq(mod.exports, LAMBDA e : keep(e.key) /\ HasDecoderShape(e))
        chosen == pick(LAMBDA k : k = "default") \o pick(LAMBDA k : k = "decoder")
                  \o pick(LAMBDA k : k \notin {"default", "decoder"})
    IN [i \in 1..Len(chosen) |-> chosen[i].dec]

\* Mutation: no try/catch around the import of a file, the catch around the
\* directory ends the scan at the first module that fails.
RECURSIVE decodersFromFilesUnguarded(_)
decodersFromFilesUnguarded(files) ==
    IF files = <<>> THEN <<>>
    ELSE LET file1 == Head(files) IN
         IF ~file1.isDecoderFile THEN decodersFromFilesUnguarded(Tail(files))
         ELSE IF ~file1.imports THEN <<>>
         ELSE DecodersOfModule(file1) \o decodersFromFilesUnguarded(Tail(files))

\* Lines 42-85: the filter and the loop over the files, a failing import
\* skipped.
RECURSIVE decodersFromFiles(_)
decodersFromFiles(files) ==
    IF files = <<>> THEN <<>>
    ELSE LET file1 == Head(files) IN
         (IF file1.isDecoderFile /\ file1.imports THEN DecodersOfModule(file1)
          ELSE <<>>)
         \o decodersFromFiles(Tail(files))

\* loadDecodersFromDir, lines 35-91.
loadDecodersFromDir(dir) ==
    IF dir.kind # "ok" THEN <<>> ELSE decodersFromFiles(dir.files)

\* Mutation: the list the registry holds is handed out itself.
getDecodersLive(list) == [items |-> list, live |-> TRUE]

\* getDecoders, lines 109-111: [...registeredDecoders], a list of its own.
\* live says whether the list is the registry's own array.
getDecoders(list) == [items |-> list, live |-> FALSE]

\* Mutation: loadAllDecoders without `registeredDecoders.length = 0`.
loadAllDecodersKeeping(projectDecoders, userDecoders) ==
    SortDecoders(Pushed(registeredDecoders, From(projectDecoders, "project")
                                              \o From(userDecoders, "user")))

\* loadAllDecoders, lines 93-102.
loadAllDecoders(projectDecoders, userDecoders) ==
    SortDecoders(Pushed(<<>>, From(projectDecoders, "project")
                                \o From(userDecoders, "user")))

\* registerDecoder, lines 104-107.
registerDecoder(list, d) ==
    SortDecoders(Pushed(list, From(<<d>>, "register")))

\* findDecoder, lines 113-120: the outcome and the position in the list.
RECURSIVE findDecoderFrom(_, _, _)
findDecoderFrom(list, i, data) ==
    IF i > Len(list) THEN [kind |-> "none", at |-> 0]
    ELSE LET m == Match(list[i].dec, data) IN
         CASE m = "raise" -> [kind |-> "raise", at |-> i]
           [] m = "true" -> [kind |-> "found", at |-> i]
           [] OTHER -> findDecoderFrom(list, i + 1, data)

findDecoder(list, data) == findDecoderFrom(list, 1, data)

\* Mutation: after a decode that gives nothing, the next decoder that
\* matches is asked.
decodeWithPluginsNextMatch(list, data) ==
    LET decoder == findDecoder(list, data)
        first == Decode(list[decoder.at].dec, data)
        next == findDecoderFrom(list, decoder.at + 1, data)
    IN CASE decoder.kind = "raise" -> [kind |-> "raise", value |-> None, by |-> 0]
         [] decoder.kind = "none" -> [kind |-> "null", value |-> None, by |-> 0]
         [] first.kind = "ok" -> [kind |-> "ok", value |-> first.value, by |-> decoder.at]
         [] next.kind = "found" ->
               LET r == Decode(list[next.at].dec, data) IN
               [kind |-> IF r.kind = "ok" THEN "ok" ELSE "null", value |-> r.value,
                by |-> next.at]
         [] OTHER -> [kind |-> "null", value |-> None, by |-> decoder.at]

\* Mutation: decodeWithPlugins without its try/catch.
decodeWithPluginsUncaught(list, data) ==
    LET decoder == findDecoder(list, data) IN
    CASE decoder.kind = "raise" -> [kind |-> "raise", value |-> None, by |-> 0]
      [] decoder.kind = "none" -> [kind |-> "null", value |-> None, by |-> 0]
      [] OTHER ->
            LET r == Decode(list[decoder.at].dec, data) IN
            [kind |-> r.kind, value |-> r.value, by |-> decoder.at]

\* decodeWithPlugins, lines 122-131.  "raise" is an exception that leaves the
\* function; a null return of decode is "null".
decodeWithPlugins(list, data) ==
    LET decoder == findDecoder(list, data) IN
    CASE decoder.kind = "raise" -> [kind |-> "raise", value |-> None, by |-> 0]
      [] decoder.kind = "none" -> [kind |-> "null", value |-> None, by |-> 0]
      [] OTHER ->
            LET r == Decode(list[decoder.at].dec, data) IN
            IF r.kind = "raise"
            THEN [kind |-> "null", value |-> None, by |-> decoder.at]
            ELSE [kind |-> r.kind, value |-> r.value, by |-> decoder.at]

---------------------------------------------------------------------------
(* The interface catalog, ALL_ABIS of abis.ts, and viem's decodeFunctionData *)
(* as decode.ts calls it.                                                  *)

Input(name, type) == [name |-> name, type |-> type]
Function(name, inputs) == [type |-> "function", name |-> name, inputs |-> Some(inputs)]

\* errors.ts: COMMON_ERRORS_ABI, the head of every catalog.
COMMON_ERRORS_ABI ==
    <<[type |-> "error", name |-> "Error",
       inputs |-> Some(<<Input("message", "string")>>)],
      [type |-> "error", name |-> "Panic",
       inputs |-> Some(<<Input("code", "uint256")>>)]>>

Transfer == Function("transfer", <<Input("to", "address"), Input("amount", "uint256")>>)
Approve == Function("approve", <<Input("spender", "address"), Input("amount", "uint256")>>)
BurnAmount == Function("burn", <<Input("amount", "uint256")>>)
BurnFrom == Function("burn", <<Input("account", "address"), Input("amount", "uint256")>>)
Execute == Function("execute", <<Input("data", "bytes")>>)
Pause == [type |-> "function", name |-> "pause", inputs |-> None]

Catalogs ==
    {COMMON_ERRORS_ABI \o <<Transfer, Approve, BurnAmount, BurnFrom, Execute, Pause>>,
     COMMON_ERRORS_ABI \o <<BurnFrom, BurnAmount, Approve, Transfer, Execute, Pause>>}

InputsOf(item) == IF IsSome(item.inputs) THEN Get(item.inputs) ELSE <<>>

TypesOf(item) == [i \in 1..Len(InputsOf(item)) |-> InputsOf(item)[i].type]

APPROVE_SELECTOR == <<"09", "5e", "a7", "b3">>
BURN_AMOUNT_SELECTOR == <<"42", "96", "6c", "68">>
BURN_FROM_SELECTOR == <<"9d", "c2", "9f", "ac">>
PAUSE_SELECTOR == <<"84", "56", "cb", "59">>

\* viem toFunctionSelector: the first four bytes of the hash of the
\* signature, in lower case.
toFunctionSelector(item) ==
    LET sig == <<item.name, TypesOf(item)>> IN
    CASE sig = <<"transfer", <<"address", "uint256">>>> -> TRANSFER_SELECTOR
      [] sig = <<"approve", <<"address", "uint256">>>> -> APPROVE_SELECTOR
      [] sig = <<"burn", <<"uint256">>>> -> BURN_AMOUNT_SELECTOR
      [] sig = <<"burn", <<"address", "uint256">>>> -> BURN_FROM_SELECTOR
      [] sig = <<"execute", <<"bytes">>>> -> EXECUTE_SELECTOR
      [] sig = <<"pause", <<>>>> -> PAUSE_SELECTOR

Raise == [kind |-> "raise", functionName |-> "", args |-> None, by |-> 0]

\* viem bytesToHex: the hex string of decoded bytes is in lower case.
bytesToHex(h) == [h EXCEPT !.sel = ToLowerCase(h.sel)]

\* viem decodeAbiParameters on the bytes after the selector: a static
\* parameter reads the word at its position, a bytes parameter follows the
\* offset at its position (the plain words of the model are no valid offset).
decodeAbiParameters(params, rest) ==
    LET raw == RawWords(rest.body) IN
    IF ByteLen(rest) = 0 \/ ByteLen(rest) < 32 \/ Len(raw) < Len(params)
    THEN None
    ELSE IF \E i \in 1..Len(params) :
                /\ params[i].type \in {"bytes", "string"}
                /\ (i > Len(rest.body) \/ rest.body[i].kind # "bytes")
    THEN None
    ELSE Some([i \in 1..Len(params) |->
                CASE params[i].type \in {"bytes", "string"} ->
                                            HexString(bytesToHex(rest.body[i].hex))
                  [] params[i].type = "address" -> Address(raw[i])
                  [] OTHER -> BigInt(raw[i])])

\* Mutation: the first function descriptor whose parameter list decodes the
\* bytes after the selector, whatever its selector.
RECURSIVE DescriptionFromStructural(_, _, _)
DescriptionFromStructural(abi, i, data) ==
    IF i > Len(abi) THEN 0
    ELSE IF /\ abi[i].type = "function"
            /\ \/ Len(InputsOf(abi[i])) = 0
               \/ decodeAbiParameters(InputsOf(abi[i]),
                      [sel |-> <<>>, body |-> data.body, tail |-> data.tail]) # None
         THEN i
         ELSE DescriptionFromStructural(abi, i + 1, data)

\* The first function descriptor whose selector is the first four bytes of
\* data as written (0 when there is none).
RECURSIVE DescriptionFrom(_, _, _)
DescriptionFrom(abi, i, data) ==
    IF i > Len(abi) THEN 0
    ELSE IF abi[i].type = "function" /\ Slice0to10(data) = toFunctionSelector(abi[i])
         THEN i
         ELSE DescriptionFrom(abi, i + 1, data)

\* viem decodeFunctionData({abi, data}): { functionName, args }, args being
\* undefined for a descriptor without inputs; raises when no descriptor has
\* the selector or the parameters do not decode.
decodeFunctionData(abi, data) ==
    LET at == DescriptionFrom(abi, 1, data) IN
    IF at = 0 THEN Raise
    ELSE LET description == abi[at] IN
         IF Len(InputsOf(description)) = 0
         THEN [kind |-> "ok", functionName |-> description.name, args |-> None, by |-> at]
         ELSE LET rest == [sel |-> <<>>, body |-> data.body, tail |-> data.tail]
                  values == IF ByteLen(data) <= 4 THEN None
                            ELSE decodeAbiParameters(InputsOf(description), rest)
              IN IF values = None THEN Raise
                 ELSE [kind |-> "ok", functionName |-> description.name,
                       args |-> values, by |-> at]

---------------------------------------------------------------------------
(* decode.ts: the catalog stage and the nested-call detection.             *)

DecodedCall(selector, functionName, signature, args, nested) ==
    [selector |-> selector, functionName |-> functionName,
     signature |-> signature, args |-> args, nested |-> nested]

ArgName(i) ==
    CASE i = 0 -> "arg0" [] i = 1 -> "arg1" [] i = 2 -> "arg2" [] OTHER -> "argN"

\* ALL_ABIS.find(item => item.type === 'function' && item.name === name):
\* the position of the first function descriptor of that name, 0 for none.
RECURSIVE FindByName(_, _, _)
FindByName(abi, i, name) ==
    IF i > Len(abi) THEN 0
    ELSE IF abi[i].type = "function" /\ abi[i].name = name THEN i
         ELSE FindByName(abi, i + 1, name)

\* Lines 218-242 (and the same code at 109-133): the args of a DecodedCall
\* from the result of decodeFunctionData.
buildArgs(abi, decoded) ==
    LET at == FindByName(abi, 1, decoded.functionName)
        resultArgs == IF IsSome(decoded.args) THEN Get(decoded.args) ELSE <<>>
    IN IF at # 0 /\ IsSome(abi[at].inputs)
       THEN [i \in 1..Len(Get(abi[at].inputs)) |->
                [name |-> Get(abi[at].inputs)[i].name,
                 type |-> Get(abi[at].inputs)[i].type,
                 value |-> IF i <= Len(resultArgs) THEN resultArgs[i] ELSE Undefined]]
       ELSE [i \in 1..Len(resultArgs) |->
                [name |-> ArgName(i - 1), type |-> "unknown", value |-> resultArgs[i]]]

\* typeof value === 'string' && value.startsWith('0x') && value.length > 10
IsCandidate(value) ==
    value.kind = "string" /\ value.prefixed /\ Length(value.hex) > 10

\* An array value and a record value (its fields in the order of
\* Object.values).
ArrayOf(items) == [kind |-> "array", items |-> items]
ObjectOf(fields) == [kind |-> "object", items |-> fields]

RECURSIVE Flatten(_)
Flatten(lists) ==
    IF lists = <<>> THEN <<>> ELSE Head(lists) \o Flatten(Tail(lists))

\* One value looked at: the candidate it is, if it is one.  path is history,
\* the place of the value: argument, element, field.
Candidate(path, value) ==
    IF IsCandidate(value) THEN <<[path |-> path, value |-> value]>> ELSE <<>>

\* Lines 167-177: the values of an element that typeof calls an object (an
\* array is one).
candidatesOfFields(path, fields) ==
    Flatten([k \in 1..Len(fields) |-> Candidate(Append(path, k), fields[k])])

\* Lines 157-178: the elements of an array-valued argument.
candidatesOfItems(path, items) ==
    Flatten([j \in 1..Len(items) |->
                Candidate(Append(path, j), items[j])
                \o (IF items[j].kind \in {"array", "object"}
                    THEN candidatesOfFields(Append(path, j), items[j].items)
                    ELSE <<>>)])

\* Mutation: the arguments are gone through from the last to the first.
candidatesLastFirst(args) ==
    Flatten([i \in 1..Len(args) |->
                LET at == Len(args) + 1 - i IN
                Candidate(<<at>>, args[at].value)
                \o (IF args[at].value.kind = "array"
                    THEN candidatesOfItems(<<at>>, args[at].value.items)
                    ELSE <<>>)])

\* detectNestedCalls, lines 149-179: the values handed to tryDecodeNested,
\* in the order of the loops.
candidates(args) ==
    Flatten([i \in 1..Len(args) |->
                Candidate(<<i>>, args[i].value)
                \o (IF args[i].value.kind = "array"
                    THEN candidatesOfItems(<<i>>, args[i].value.items)
                    ELSE <<>>)])

RECURSIVE tryDecodeNested(_)
RECURSIVE detectNestedCalls(_)

\* tryDecodeNested, lines 100-144: a DecodedCall or none (null).
tryDecodeNested(data) ==
    IF Length(data) < 10 THEN None
    ELSE LET decoded == decodeFunctionData(ALL_ABIS, data) IN
         IF decoded.kind = "raise" THEN None
         ELSE LET args == buildArgs(ALL_ABIS, decoded) IN
              Some(DecodedCall(Slice0to10(data), Some(decoded.functionName), None,
                               args, Some(detectNestedCalls(args))))

\* detectNestedCalls, lines 146-182: every candidate that decodes gives an
\* entry.
detectNestedCalls(args) ==
    LET taken == candidates(args) IN
    Flatten([c \in 1..Len(taken) |-> tryDecodeNested(taken[c].value.hex)])

RECURSIVE Visits(_, _)
\* The tryDecodeNested calls a detectNestedCalls call leads to, in the order
\* they are made: a call, then the calls made inside it, then the next.
Visits(args, depth) ==
    LET taken == candidates(args) IN
    Flatten([c \in 1..Len(taken) |->
                LET data == taken[c].value.hex
                    decoded == decodeFunctionData(ALL_ABIS, data)
                IN <<[depth |-> depth, selector |-> Slice0to10(data),
                      decoded |-> decoded.kind = "ok"]>>
                   \o (IF decoded.kind = "ok"
                       THEN Visits(buildArgs(ALL_ABIS, decoded), depth + 1)
                       ELSE <<>>)])

---------------------------------------------------------------------------
(* selectors.ts (src/unnamed/part_000): the selector cache.                *)

NoEntries == [s \in {} |-> <<>>]
NullCache == [kind |-> "null", entries |-> NoEntries]
Object(entries) == [kind |-> "object", entries |-> entries]

\* loadCache, lines 22-35: the value of cache after the call.  A file that
\* cannot be read or parsed gives the empty object; a file that holds the
\* JSON null gives null.
loadCache(c, f) ==
    IF c.kind = "object" THEN c
    ELSE CASE f.kind = "object" -> Object(f.entries)
           [] f.kind = "null" -> NullCache
           [] OTHER -> Object(NoEntries)

\* Mutation: only a list that holds a signature is stored.
addToCacheNonEmpty(c, f, selector, sigs) ==
    LET loaded == loadCache(c, f)
        key == ToLowerCase(selector)
    IN IF Len(sigs) = 0 THEN loaded
       ELSE Object([s \in DOMAIN loaded.entries \cup {key} |->
                       IF s = key THEN sigs ELSE loaded.entries[s]])

\* Mutation: an entry that is there already is kept, the first write wins.
addToCacheIfAbsent(c, f, selector, sigs) ==
    LET loaded == loadCache(c, f)
        key == ToLowerCase(selector)
    IN Object([s \in DOMAIN loaded.entries \cup {key} |->
                  IF s \in DOMAIN loaded.entries THEN loaded.entries[s] ELSE sigs])

\* Mutation: the entry is added to what the file holds, not to the object
\* in memory.
addToCacheFromFile(c, f, selector, sigs) ==
    LET loaded == loadCache(NullCache, f)
        key == ToLowerCase(selector)
    IN Object([s \in DOMAIN loaded.entries \cup {key} |->
                  IF s = key THEN sigs ELSE loaded.entries[s]])

\* addToCache, lines 47-51 (cacheModified becomes true).
addToCache(c, f, selector, sigs) ==
    LET loaded == loadCache(c, f)
        key == ToLowerCase(selector)
    IN Object([s \in DOMAIN loaded.entries \cup {key} |->
                  IF s = key THEN sigs ELSE loaded.entries[s]])

\* Mutation: the file is never written.
saveCacheSkipped(c, modified, f, writeOk) == f

\* saveCache, lines 37-45: the file after the call; a failed write leaves it.
saveCache(c, modified, f, writeOk) ==
    IF ~modified \/ c.kind # "object" \/ ~writeOk THEN f
    ELSE Object(c.entries)

\* Mutation: response.ok is not looked at, the body of a failure is read.
fetchFrom4byteUnchecked(response) == response.results

\* fetchFrom4byte, lines 53-67, and fetchFromOpenchain, lines 69-87: a
\* transport error, a timeout ("error") and a non-success response ("notok")
\* all give [].
fetchFrom4byte(response) ==
    IF response.kind = "ok" THEN response.results ELSE <<>>

fetchFromOpenchain(response) ==
    IF response.kind = "ok" THEN response.results ELSE <<>>

Responses4byte ==
    {[kind |-> "error", results |-> <<>>],
     [kind |-> "notok", results |-> <<"oops()">>],
     [kind |-> "ok", results |-> <<>>],
     [kind |-> "ok", results |-> <<"foo()", "bar()">>]}

\* Mutation: the second database is asked whatever the first one answered.
QueryOpenchainAlways(sigs) == TRUE

\* Line 104: signatures.length === 0
QueryOpenchain(sigs) == Len(sigs) = 0

ResponsesOpenchain ==
    {[kind |-> "notok", results |-> <<>>],
     [kind |-> "ok", results |-> <<"baz()">>]}

\* A string that does not start with 0x has the marker "" in front of its
\* characters; every other string is the 0x prefix and its hex pairs.
StartsWith0x(s) == s = <<>> \/ s[1] # ""

StringLength(s) == IF StartsWith0x(s) THEN 2 + 2 * Len(s) ELSE 2 * (Len(s) - 1)

\* Mutation: the 0x prefix is not asked for.
InvalidSelectorLengthOnly(normalizedSelector) ==
    StringLength(normalizedSelector) # 10

\* Line 92: normalizedSelector.length !== 10 || !normalizedSelector.startsWith('0x')
InvalidSelector(normalizedSelector) ==
    StringLength(normalizedSelector) # 10 \/ ~StartsWith0x(normalizedSelector)

\* loadCache, lines 23-27: the call reads the file.
readsFile(c, f) == c.kind # "object" /\ f.kind # "absent"

\* Mutation: a cache that is not loaded yet counts as holding nothing, the
\* call returns [] and leaves the cache loaded.
lookupSelectorStartCold(c, f, selector) ==
    LET normalizedSelector == ToLowerCase(selector)
        loaded == loadCache(c, f)
    IN IF InvalidSelector(normalizedSelector) \/ c.kind # "object"
       THEN [kind |-> "return", sigs |-> <<>>, cache |-> loaded]
       ELSE IF normalizedSelector \in DOMAIN loaded.entries
       THEN [kind |-> "return", sigs |-> loaded.entries[normalizedSelector],
             cache |-> loaded]
       ELSE [kind |-> "await", sigs |-> <<>>, cache |-> loaded]

\* Mutation: an entry counts as cached only when it holds a signature.
lookupSelectorStartTruthy(c, f, selector) ==
    LET normalizedSelector == ToLowerCase(selector) IN
    IF InvalidSelector(normalizedSelector)
    THEN [kind |-> "return", sigs |-> <<>>, cache |-> c]
    ELSE LET loaded == loadCache(c, f) IN
         IF loaded.kind = "null"
         THEN [kind |-> "raise", sigs |-> <<>>, cache |-> loaded]
         ELSE IF /\ normalizedSelector \in DOMAIN loaded.entries
                 /\ Len(loaded.entries[normalizedSelector]) > 0
         THEN [kind |-> "return", sigs |-> loaded.entries[normalizedSelector],
               cache |-> loaded]
         ELSE [kind |-> "await", sigs |-> <<>>, cache |-> loaded]

\* lookupSelector up to its first await, lines 89-102: "return" with the
\* list, "raise" (c is null), or "await" the first remote query.
lookupSelectorStart(c, f, selector) ==
    LET normalizedSelector == ToLowerCase(selector) IN
    IF InvalidSelector(normalizedSelector)
    THEN [kind |-> "return", sigs |-> <<>>, cache |-> c]
    ELSE LET loaded == loadCache(c, f) IN
         IF loaded.kind = "null"
         THEN [kind |-> "raise", sigs |-> <<>>, cache |-> loaded]
         ELSE IF normalizedSelector \in DOMAIN loaded.entries
         THEN [kind |-> "return", sigs |-> loaded.entries[normalizedSelector],
               cache |-> loaded]
         ELSE [kind |-> "await", sigs |-> <<>>, cache |-> loaded]

\* lookupSelectorSync, lines 114-118: the entry, or none (undefined); raises
\* when the cache is null.
lookupSelectorSync(c, f, selector) ==
    LET normalizedSelector == ToLowerCase(selector)
        loaded == loadCache(c, f)
    IN IF loaded.kind = "null"
       THEN [kind |-> "raise", value |-> None, cache |-> loaded]
       ELSE [kind |-> "return",
             value |-> IF normalizedSelector \in DOMAIN loaded.entries
                       THEN Some(loaded.entries[normalizedSelector])
                       ELSE None,
             cache |-> loaded]

\* clearCache, line 125: cache = {}
clearCache == Object(NoEntries)

---------------------------------------------------------------------------
(* decode.ts: decodeCalldata.                                              *)

Ev(e, who) == [ev |-> e, who |-> who]

Range(seq) == {seq[i] : i \in 1..Len(seq)}

NoCall == DecodedCall(<<>>, None, None, <<>>, None)

\* Mutation: the signature found is given as the function name too.
FallbackNamed(selector, sigs, data) ==
    DecodedCall(selector,
                IF Len(sigs) = 0 THEN None ELSE Some(sigs[Len(sigs)]),
                IF Len(sigs) = 0 THEN None ELSE Some(sigs[Len(sigs)]),
                <<[name |-> "data", type |-> "bytes", value |-> Slice10(data)]>>,
                None)

\* Mutation: the first signature of the list instead of the last.
FallbackFirst(selector, sigs, data) ==
    DecodedCall(selector, None,
                IF Len(sigs) = 0 THEN None ELSE Some(sigs[1]),
                <<[name |-> "data", type |-> "bytes", value |-> Slice10(data)]>>,
                None)

\* Lines 254-258: the DecodedCall of the catch branch.
Fallback(selector, sigs, data) ==
    DecodedCall(selector, None,
                IF Len(sigs) = 0 THEN None ELSE Some(sigs[Len(sigs)]),
                <<[name |-> "data", type |-> "bytes", value |-> Slice10(data)]>>,
                None)

\* Mutation: the nested list of the plugin from its last entry to its first.
FromPluginReversed(selector, r) ==
    DecodedCall(selector, Some(r.name), None, r.params,
                IF IsSome(r.nested)
                THEN Some([i \in 1..Len(Get(r.nested)) |->
                            LET n == Get(r.nested)[Len(Get(r.nested)) + 1 - i] IN
                            DecodedCall(<<>>, Some(n.name), None, n.params, None)])
                ELSE None)

\* Mutation: nested-call detection run over the params of a plugin result.
FromPluginDetecting(selector, r) ==
    DecodedCall(selector, Some(r.name), None, r.params,
                Some(detectNestedCalls(r.params)))

\* Lines 200-209: the DecodedCall of a plugin result.
FromPlugin(selector, r) ==
    DecodedCall(selector, Some(r.name), None, r.params,
                IF IsSome(r.nested)
                THEN Some([i \in 1..Len(Get(r.nested)) |->
                            DecodedCall(<<>>, Some(Get(r.nested)[i].name), None,
                                        Get(r.nested)[i].params, None)])
                ELSE None)

\* The calls findDecoder and decodeWithPlugins make on the decoders.
PluginCalls(list, data) ==
    LET decoder == findDecoder(list, data)
        asked == IF decoder.kind = "none" THEN Len(list) ELSE decoder.at
    IN [i \in 1..asked |-> Ev("match", i)]
       \o (IF decoder.kind = "found" THEN <<Ev("decode", decoder.at)>> ELSE <<>>)

\* Lines 198-210: the end of the call when the plugin stage decides it (a
\* result, or an exception out of findDecoder).
pluginStage(plugin, c, selector, first) ==
    IF plugin.kind = "raise"
    THEN [kind |-> "raise", value |-> NoCall, stage |-> "plugins",
          sigs |-> None, cache |-> c, calls |-> first]
    ELSE [kind |-> "return", value |-> FromPlugin(selector, Get(plugin.value)),
          stage |-> "plugins", sigs |-> None, cache |-> c, calls |-> first]

\* Lines 212-259: the catalog stage and, in its catch branch, lookupSelector
\* up to its first suspension.
catalogStage(c, f, data, selector, first) ==
    LET decoded == decodeFunctionData(ALL_ABIS, data) IN
    IF decoded.kind = "ok"
    THEN LET args == buildArgs(ALL_ABIS, decoded) IN
         [kind |-> "return",
          value |-> DecodedCall(selector, Some(decoded.functionName), None,
                                args, Some(detectNestedCalls(args))),
          stage |-> "catalog", sigs |-> None, cache |-> c,
          calls |-> first \o <<Ev("decodeFunctionData", 0),
                               Ev("detectNestedCalls", 0)>>]
    ELSE LET looked == lookupSelectorStart(c, f, selector)
             calls == first \o <<Ev("decodeFunctionData", 0), Ev("lookupSelector", 0)>>
         IN CASE looked.kind = "raise" ->
                    [kind |-> "raise", value |-> NoCall, stage |-> "cache",
                     sigs |-> None, cache |-> looked.cache, calls |-> calls]
              [] looked.kind = "return" ->
                    [kind |-> "return",
                     value |-> Fallback(selector, looked.sigs, data),
                     stage |-> "cache", sigs |-> Some(looked.sigs),
                     cache |-> looked.cache, calls |-> calls]
              [] OTHER ->
                    [kind |-> "await", value |-> NoCall, stage |-> "cache",
                     sigs |-> None, cache |-> looked.cache, calls |-> calls]

\* Mutation: the catalog asked before the plugins.
decodeCalldataCatalogFirst(list, c, f, data) ==
    LET selector == ToLowerCase(Slice0to10(data))
        plugin == decodeWithPlugins(list, data)
        first == PluginCalls(list, data)
    IN IF decodeFunctionData(ALL_ABIS, data).kind = "ok"
       THEN catalogStage(c, f, data, selector, <<>>)
       ELSE IF plugin.kind \in {"raise", "ok"}
            THEN pluginStage(plugin, c, selector, first)
            ELSE catalogStage(c, f, data, selector, first)

\* decodeCalldata, lines 184-260, up to the first suspension of
\* lookupSelector.  kind is "return" (value is the DecodedCall), "raise" (an
\* exception leaves the function) or "await" (the remote queries follow);
\* stage says which stage ended the call, calls lists the calls made.
decodeCalldata(list, c, f, data) ==
    LET selector == ToLowerCase(Slice0to10(data))
        plugin == decodeWithPlugins(list, data)
        first == PluginCalls(list, data)
    IN IF plugin.kind \in {"raise", "ok"}
       THEN pluginStage(plugin, c, selector, first)
       ELSE catalogStage(c, f, data, selector, first)

---------------------------------------------------------------------------
(* Inputs of the model. *)

W1 == Word(1)
W2 == Word(2)

Payloads ==
    {Hex(<<"a9", "05">>, <<>>),
     Hex(TRANSFER_SELECTOR, <<>>),
     Hex(PAUSE_SELECTOR, <<>>),
     Hex(TRANSFER_SELECTOR, <<W1>>),
     Hex(TRANSFER_SELECTOR, <<W1, W2>>),
     Hex(<<"A9", "05", "9C", "BB">>, <<W1, W2>>),
     Hex(APPROVE_SELECTOR, <<W1, W2>>),
     Hex(BURN_FROM_SELECTOR, <<W1, W2>>),
     Hex(UNKNOWN_SELECTOR, <<W1, W2>>),
     Hex(EXECUTE_SELECTOR, <<Bytes(Hex(TRANSFER_SELECTOR, <<W1, W2>>))>>),
     Hex(EXECUTE_SELECTOR, <<Bytes(Hex(UNKNOWN_SELECTOR, <<W1, W2>>))>>),
     Hex(EXECUTE_SELECTOR,
         <<Bytes(Hex(EXECUTE_SELECTOR,
                     <<Bytes(Hex(EXECUTE_SELECTOR,
                                 <<Bytes(Hex(TRANSFER_SELECTOR, <<W1, W2>>))>>))>>))>>)}

\* What selectors.json can hold when the process starts.
Files ==
    {[kind |-> "absent", entries |-> NoEntries],
     [kind |-> "null", entries |-> NoEntries],
     Object(NoEntries),
     Object([s \in {UNKNOWN_SELECTOR} |-> <<"foo()", "bar()">>])}

\* The registries decodeCommand can leave before it calls decodeCalldata.
DecodeRegistries ==
    {loadAllDecoders(p, u) : p \in DirListings, u \in {<<>>, <<5>>}}

NoOutcome == [kind |-> "idle", at |-> 0]
NoPluginResult == [kind |-> "idle", value |-> None, by |-> 0]
NoResult == [kind |-> "idle", value |-> NoCall, stage |-> "idle"]

\* The selectors a caller hands to selectors.ts: as written, in upper case,
\* one that is no four bytes long, and one of ten characters without 0x.
SelectorArgs ==
    {UNKNOWN_SELECTOR, TRANSFER_SELECTOR, <<"A9", "05", "9C", "BB">>, <<"a9", "05">>,
     <<"", "a9", "05", "9c", "bb", "00">>}

NoReturn ==
    [op |-> "idle", kind |-> "idle", sigs |-> None, wrote |-> "none", remote |-> <<>>]
NoQueries == [s \in {ToLowerCase(a) : a \in SelectorArgs} |-> 0]

\* The callers that look selectors up side by side.
Callers == {1, 2}

\* wrote is a history value: "ok" or "failed" for the writeFileSync of the
\* call, "none" while the call has not written.
NoCaller ==
    [pc |-> "idle", selector |-> <<>>, sigs |-> None, remote |-> <<>>,
     kind |-> "idle", pending |-> {}, wrote |-> "none"]

\* The variables of the other parts while a part runs.
\* known.ts: KNOWN_TOPICS and KNOWN_CONTRACTS, one entry of each.
baseKnownTopics == [k \in {"0xddf252ad"} |-> "Transfer"]
baseKnownContracts == [k \in {"0xc02aaa39"} |-> "WETH (Mainnet)"]

NoAbiDir == [kind |-> "missing", files |-> <<>>]

\* retry.ts, lines 9-27.  shouldRetry is "default" (the message test) or a
\* function the caller gave.
DEFAULT_OPTIONS ==
    [maxAttempts |-> 3, initialDelayMs |-> 1000, maxDelayMs |-> 10000,
     backoffMultiplier |-> 2, shouldRetry |-> "default"]

\* No withRetry call made yet.  thrown, invocations and waits are history:
\* what fn threw, how often it was invoked and what sleep was called with in
\* this call.
NoRetry ==
    [pc |-> "idle", opts |-> DEFAULT_OPTIONS, attempt |-> 0, lastError |-> None,
     delay |-> 0, thrown |-> <<>>, invocations |-> 0, waits |-> <<>>,
     outcome |-> [kind |-> "none", value |-> None]]

\* No RpcManager constructed yet.  The last three fields are history: per
\* RPC the reportFailure calls since its last reportSuccess, those of them
\* made while it was the current RPC, and the last call with the index
\* before it.
NoManager ==
    [state |-> "none", rpcs |-> <<>>, currentIndex |-> 0,
     failureCounts |-> [u \in {} |-> 0],
     sinceSuccess |-> [u \in {} |-> 0], whileCurrent |-> [u \in {} |-> 0],
     last |-> [op |-> "none", rpc |-> "", before |-> 0]]

\* No detectNestedCalls call made yet.  examined and order are history:
\* the candidates of the call and the tryDecodeNested calls it led to.
NoDetect == [args |-> <<>>, nested |-> <<>>, examined |-> <<>>, order |-> <<>>]

RestIdle ==
    /\ manager = NoManager
    /\ detect = NoDetect
    /\ abiDir = NoAbiDir
    /\ abiFiles = <<>>
    /\ abisPc = "done"
    /\ knownTopics = baseKnownTopics
    /\ knownContracts = baseKnownContracts
    /\ retry = NoRetry
    /\ callers = [p \in Callers |-> NoCaller]
    /\ completions = <<>>
    /\ snapshot = None
    /\ registryOp = "idle"
    /\ loadedFrom = None

---------------------------------------------------------------------------
(* The decode of payloads against a loaded registry. *)

Init ==
    /\ registeredDecoders \in DecodeRegistries
    /\ ALL_ABIS \in Catalogs
    /\ cache = NullCache
    /\ cacheModified = FALSE
    /\ file \in Files
    /\ pc = "idle"
    /\ payload = NoHex
    /\ found = NoOutcome
    /\ pluginResult = NoPluginResult
    /\ signatures = None
    /\ result = NoResult
    /\ log = <<>>
    /\ previous = None
    /\ selectorArg = <<>>
    /\ returned = NoReturn
    /\ queried = NoQueries
    /\ fileReads = 0
    /\ RestIdle

DecodeCalldata ==
    \E d \in Payloads :
        /\ pc \in {"idle", "done"}
        /\ \E r \in {decodeCalldata(registeredDecoders, cache, file, d)} :
            /\ payload' = d
            /\ found' = findDecoder(registeredDecoders, d)
            /\ pluginResult' = decodeWithPlugins(registeredDecoders, d)
            /\ cache' = r.cache
            /\ signatures' = r.sigs
            /\ log' = r.calls
            /\ result' = IF r.kind = "await"
                         THEN [kind |-> "pending", value |-> NoCall, stage |-> "cache"]
                         ELSE [kind |-> r.kind, value |-> r.value, stage |-> r.stage]
            /\ pc' = IF r.kind = "await" THEN "fetchFrom4byte" ELSE "done"
        /\ previous' = IF pc = "done" /\ d = payload
                        THEN Some([result |-> result,
                                   modified |-> Ev("addToCache", 0) \in Range(log)])
                        ELSE None
        /\ UNCHANGED <<registeredDecoders, ALL_ABIS, cacheModified, file, selectorVars, restVars>>

\* lookupSelector, lines 108-111, and decodeCalldata, lines 252-258.
Complete(sigs, writeOk, calls) ==
    LET selector == ToLowerCase(Slice0to10(payload))
        written == addToCache(cache, file, selector, sigs)
    IN /\ cache' = written
       /\ file' = saveCache(written, TRUE, file, writeOk)
       /\ cacheModified' = ~writeOk
       /\ signatures' = Some(sigs)
       /\ result' = [kind |-> "return", value |-> Fallback(selector, sigs, payload),
                     stage |-> "cache"]
       /\ log' = log \o calls \o <<Ev("addToCache", 0), Ev("saveCache", 0)>>
       /\ pc' = "done"
       /\ UNCHANGED <<registeredDecoders, ALL_ABIS, payload, found, pluginResult,
                       previous, selectorVars, restVars>>

\* lookupSelector, lines 102-106: the first remote query returns.
Fetch4byteReturns ==
    \E response \in Responses4byte, writeOk \in BOOLEAN :
        /\ pc = "fetchFrom4byte"
        /\ LET sigs == fetchFrom4byte(response) IN
           IF QueryOpenchain(sigs)
           THEN /\ pc' = "fetchFromOpenchain"
                /\ log' = Append(log, Ev("fetchFrom4byte", 0))
                /\ UNCHANGED <<registeredDecoders, ALL_ABIS, cache, cacheModified,
                               file, payload, found, pluginResult, signatures, result,
                               previous, selectorVars, restVars>>
           ELSE Complete(sigs, writeOk, <<Ev("fetchFrom4byte", 0)>>)

\* lookupSelector, lines 105-111: the second remote query returns.
FetchOpenchainReturns ==
    \E response \in ResponsesOpenchain, writeOk \in BOOLEAN :
        /\ pc = "fetchFromOpenchain"
        /\ Complete(fetchFromOpenchain(response), writeOk,
                    <<Ev("fetchFromOpenchain", 0)>>)

Next == DecodeCalldata \/ Fetch4byteReturns \/ FetchOpenchainReturns

Spec == Init /\ [][Next]_vars

---------------------------------------------------------------------------
(* The registry on its own. *)

InitRegistry ==
    /\ registeredDecoders = <<>>
    /\ ALL_ABIS = COMMON_ERRORS_ABI
    /\ cache = NullCache
    /\ cacheModified = FALSE
    /\ file = Object(NoEntries)
    /\ pc = "idle"
    /\ payload = NoHex
    /\ found = NoOutcome
    /\ pluginResult = NoPluginResult
    /\ signatures = None
    /\ result = NoResult
    /\ log = <<>>
    /\ previous = None
    /\ selectorArg = <<>>
    /\ returned = NoReturn
    /\ queried = NoQueries
    /\ fileReads = 0
    /\ RestIdle

LoadAllDecoders ==
    \E p \in DirListings, u \in DirListings :
        /\ Len(p) + Len(u) <= MaxDecoders
        /\ registeredDecoders' = loadAllDecoders(p, u)
        /\ payload' = NoHex
        /\ found' = NoOutcome
        /\ pluginResult' = NoPluginResult
        /\ UNCHANGED <<ALL_ABIS, cache, cacheModified, file, pc, signatures, result, log,
                       previous, selectorVars, restVars>>

RegisterDecoder ==
    \E d \in DecoderIds :
        /\ Len(registeredDecoders) < MaxDecoders
        /\ registeredDecoders' = registerDecoder(registeredDecoders, d)
        /\ payload' = NoHex
        /\ found' = NoOutcome
        /\ pluginResult' = NoPluginResult
        /\ UNCHANGED <<ALL_ABIS, cache, cacheModified, file, pc, signatures, result, log,
                       previous, selectorVars, restVars>>

FindDecoder ==
    \E d \in Payloads :
        /\ payload' = d
        /\ found' = findDecoder(registeredDecoders, d)
        /\ pluginResult' = decodeWithPlugins(registeredDecoders, d)
        /\ UNCHANGED <<registeredDecoders, ALL_ABIS, cache, cacheModified, file, pc,
                       signatures, result, log, previous, selectorVars, restVars>>

NextRegistry == LoadAllDecoders \/ RegisterDecoder \/ FindDecoder

SpecRegistry == InitRegistry /\ [][NextRegistry]_vars

---------------------------------------------------------------------------
(* The selector cache on its own: calls of lookupSelector, one at a time,  *)
(* of lookupSelectorSync and of clearCache.                                *)

decodeVars ==
    <<registeredDecoders, ALL_ABIS, payload, found, pluginResult, signatures,
      result, previous, restVars>>

InitSelectors ==
    /\ registeredDecoders = <<>>
    /\ ALL_ABIS = COMMON_ERRORS_ABI
    /\ cache = NullCache
    /\ cacheModified = FALSE
    /\ file \in Files
    /\ pc = "idle"
    /\ payload = NoHex
    /\ found = NoOutcome
    /\ pluginResult = NoPluginResult
    /\ signatures = None
    /\ result = NoResult
    /\ log = <<>>
    /\ previous = None
    /\ selectorArg = <<>>
    /\ returned = NoReturn
    /\ queried = NoQueries
    /\ fileReads = 0
    /\ RestIdle

\* lookupSelector, lines 89-102: up to the return of a cached entry or to the
\* first remote query.
LookupSelector ==
    \E s \in SelectorArgs :
        /\ pc \in {"idle", "done"}
        /\ queried[ToLowerCase(s)] < MaxQueries
        /\ \E r \in {lookupSelectorStart(cache, file, s)} :
            /\ selectorArg' = s
            /\ cache' = r.cache
            /\ log' = <<>>
            /\ pc' = IF r.kind = "await" THEN "fetchFrom4byte" ELSE "done"
            /\ returned' = [op |-> "lookupSelector",
                            kind |-> IF r.kind = "await" THEN "pending" ELSE r.kind,
                            sigs |-> IF r.kind = "return" THEN Some(r.sigs) ELSE None,
                            wrote |-> "none", remote |-> <<>>]
            /\ fileReads' = IF ~InvalidSelector(ToLowerCase(s)) /\ readsFile(cache, file)
                            THEN (IF fileReads < 2 THEN fileReads + 1 ELSE fileReads)
                            ELSE fileReads
        /\ UNCHANGED <<cacheModified, file, queried, decodeVars>>

\* lookupSelector, lines 108-111: addToCache, saveCache, return.
LookupReturns(sigs, writeOk, asked) ==
    LET written == addToCache(cache, file, ToLowerCase(selectorArg), sigs) IN
    /\ cache' = written
    /\ file' = saveCache(written, TRUE, file, writeOk)
    /\ cacheModified' = ~writeOk
    /\ returned' = [op |-> "lookupSelector", kind |-> "return", sigs |-> Some(sigs),
                    wrote |-> IF writeOk THEN "ok" ELSE "failed",
                    remote |-> Append(returned.remote, asked)]
    /\ log' = log \o <<Ev(asked.api, 0), Ev("addToCache", 0), Ev("saveCache", 0)>>
    /\ pc' = "done"
    /\ UNCHANGED <<selectorArg, fileReads, decodeVars>>

\* lookupSelector, lines 102-106: fetchFrom4byte returns.
SelectorFetch4byteReturns ==
    \E response \in Responses4byte, writeOk \in BOOLEAN :
        /\ pc = "fetchFrom4byte"
        /\ queried' = [queried EXCEPT ![ToLowerCase(selectorArg)] = @ + 1]
        /\ LET sigs == fetchFrom4byte(response)
               asked == [api |-> "fetchFrom4byte", response |-> response]
           IN IF QueryOpenchain(sigs)
              THEN /\ pc' = "fetchFromOpenchain"
                   /\ log' = Append(log, Ev("fetchFrom4byte", 0))
                   /\ returned' = [returned EXCEPT !.remote = Append(@, asked)]
                   /\ UNCHANGED <<cache, cacheModified, file, selectorArg, fileReads,
                                  decodeVars>>
              ELSE LookupReturns(sigs, writeOk, asked)

\* lookupSelector, lines 105-111: fetchFromOpenchain returns.
SelectorFetchOpenchainReturns ==
    \E response \in ResponsesOpenchain, writeOk \in BOOLEAN :
        /\ pc = "fetchFromOpenchain"
        /\ LookupReturns(fetchFromOpenchain(response), writeOk,
                         [api |-> "fetchFromOpenchain", response |-> response])
        /\ UNCHANGED queried

\* lookupSelectorSync, lines 114-118.
LookupSelectorSync ==
    \E s \in SelectorArgs :
        /\ pc \in {"idle", "done"}
        /\ \E r \in {lookupSelectorSync(cache, file, s)} :
            /\ selectorArg' = s
            /\ cache' = r.cache
            /\ returned' = [op |-> "lookupSelectorSync", kind |-> r.kind,
                            sigs |-> r.value, wrote |-> "none", remote |-> <<>>]
        /\ fileReads' = IF readsFile(cache, file)
                        THEN (IF fileReads < 2 THEN fileReads + 1 ELSE fileReads)
                        ELSE fileReads
        /\ log' = <<>>
        /\ pc' = "done"
        /\ UNCHANGED <<cacheModified, file, queried, decodeVars>>

\* clearCache, lines 124-128.
ClearCache ==
    \E writeOk \in BOOLEAN :
        /\ pc \in {"idle", "done"}
        /\ cache' = clearCache
        /\ file' = saveCache(clearCache, TRUE, file, writeOk)
        /\ cacheModified' = ~writeOk
        /\ selectorArg' = <<>>
        /\ returned' = [op |-> "clearCache", kind |-> "return", sigs |-> None,
                        wrote |-> IF writeOk THEN "ok" ELSE "failed",
                        remote |-> <<>>]
        /\ queried' = NoQueries
        /\ log' = <<Ev("saveCache", 0)>>
        /\ pc' = "done"
        /\ UNCHANGED <<fileReads, decodeVars>>

NextSelectors ==
    \/ LookupSelector
    \/ SelectorFetch4byteReturns
    \/ SelectorFetchOpenchainReturns
    \/ LookupSelectorSync
    \/ ClearCache

SpecSelectors == InitSelectors /\ [][NextSelectors]_vars

---------------------------------------------------------------------------
(* The registry loaded from directories, and the lists getDecoders hands   *)
(* out.                                                                    *)

loaderVars ==
    <<ALL_ABIS, cache, cacheModified, file, pc, payload, found, pluginResult,
      signatures, result, log, previous, selectorVars, concurrentVars, abisVars,
      retryVars, laterVars>>

\* The list the caller holds after the registry changed.
Aliased(list) ==
    IF IsSome(snapshot) /\ Get(snapshot).live
    THEN Some([Get(snapshot) EXCEPT !.items = list])
    ELSE snapshot

LoadFromDirectories ==
    \E project \in Directories, user \in Directories :
        LET projectDecoders == loadDecodersFromDir(project)
            userDecoders == loadDecodersFromDir(user)
        IN /\ Len(projectDecoders) + Len(userDecoders) <= MaxDecoders
           /\ registeredDecoders' = loadAllDecoders(projectDecoders, userDecoders)
           /\ snapshot' = Aliased(registeredDecoders')
           /\ registryOp' = "loadAllDecoders"
           /\ loadedFrom' =
                  LET again == /\ registryOp = "loadAllDecoders" /\ IsSome(loadedFrom)
                               /\ Get(loadedFrom).project = project
                               /\ Get(loadedFrom).user = user
                  IN Some([project |-> project, user |-> user,
                           again |-> again,
                           same |-> registeredDecoders' = registeredDecoders,
                           hadRegistered |->
                               IF again THEN Get(loadedFrom).hadRegistered
                               ELSE \E i \in 1..Len(registeredDecoders) :
                                       registeredDecoders[i].origin = "register"])
           /\ UNCHANGED loaderVars

RegisterOne ==
    \E d \in {1} :
        /\ Len(registeredDecoders) < MaxDecoders
        /\ registeredDecoders' = registerDecoder(registeredDecoders, d)
        /\ snapshot' = Aliased(registeredDecoders')
        /\ registryOp' = "registerDecoder"
        /\ loadedFrom' = None
        /\ UNCHANGED loaderVars

GetDecoders ==
    /\ snapshot' = Some(getDecoders(registeredDecoders))
    /\ registryOp' = "getDecoders"
    /\ loadedFrom' = None
    /\ UNCHANGED <<registeredDecoders, loaderVars>>

\* The caller changes the list it was given: pop or push.
MutateReturnedList ==
    \E how \in {"pop", "push"} :
        /\ IsSome(snapshot)
        /\ how = "push" => Len(Get(snapshot).items) < MaxDecoders
        /\ LET items == Get(snapshot).items
               changed ==
                   CASE how = "pop" -> SubSeq(items, 1, Len(items) - 1)
                     [] OTHER -> Append(items, [dec |-> 2, origin |-> "caller",
                                                stamp |-> 0])
           IN /\ snapshot' = Some([Get(snapshot) EXCEPT !.items = changed])
              /\ registeredDecoders' = IF Get(snapshot).live THEN changed
                                       ELSE registeredDecoders
        /\ registryOp' = "mutate"
        /\ loadedFrom' = None
        /\ UNCHANGED loaderVars

InitLoader == InitRegistry

NextLoader == LoadFromDirectories \/ RegisterOne \/ GetDecoders \/ MutateReturnedList

SpecLoader == InitLoader /\ [][NextLoader]_vars

---------------------------------------------------------------------------
(* abis.ts: the catalog and the two name maps, filled when the module is   *)
(* loaded.                                                                 *)

MaxSources == 3

Export(key, type, value) == [key |-> key, type |-> type, value |-> value]

\* The files abi/ can hold: isTs is the .ts suffix, imports is whether the
\* import succeeds, exports are in the order of Object.entries.
AbiSources ==
    <<[isTs |-> TRUE, imports |-> TRUE,
       exports |-> <<Export("KNOWN_CONTRACTS", "object",
                            [k \in {"0xc02aaa39"} |-> "WETH"]),
                     Export("KNOWN_TOPICS", "object",
                            [k \in {"0xddf252ad"} |-> "Transfer (ERC-20)"]),
                     Export("erc20Abi", "array", <<Transfer, Approve>>)>>],
      [isTs |-> TRUE, imports |-> TRUE,
       exports |-> <<Export("KNOWN_CONTRACTS", "null", <<>>),
                     Export("KNOWN_TOPICS", "object",
                            [k \in {"0xddf252ad", "0x8c5be1e5"} |->
                                IF k = "0xddf252ad" THEN "Transfer (ERC-721)"
                                ELSE "Approval"]),
                     Export("routerAbi", "array", <<Execute>>),
                     Export("version", "string", <<>>)>>],
      [isTs |-> TRUE, imports |-> FALSE,
       exports |-> <<Export("brokenAbi", "array", <<Pause>>)>>],
      [isTs |-> FALSE, imports |-> TRUE,
       exports |-> <<Export("jsonAbi", "array", <<BurnAmount>>)>>]>>

RECURSIVE SeqsUpTo(_, _)
SeqsUpTo(S, n) ==
    IF n = 0 THEN {<<>>}
    ELSE SeqsUpTo(S, n - 1)
         \cup {Append(q, x) : q \in {r \in SeqsUpTo(S, n - 1) : Len(r) = n - 1},
                              x \in S}

\* abi/: missing, not readable, or a list of files.
AbiDirectories ==
    {NoAbiDir, [kind |-> "unreadable", files |-> <<AbiSources[1]>>]}
    \cup {[kind |-> "ok", files |-> [i \in 1..Len(q) |-> AbiSources[q[i]]]] :
            q \in SeqsUpTo(1..Len(AbiSources), MaxSources)}

\* Mutation: a key that has a value keeps it.
ObjectAssignKeeping(target, source) ==
    [k \in DOMAIN target \cup DOMAIN source |->
        IF k \in DOMAIN target THEN target[k] ELSE source[k]]

\* Object.assign(target, source) for two string maps.
ObjectAssign(target, source) ==
    [k \in DOMAIN target \cup DOMAIN source |->
        IF k \in DOMAIN source THEN source[k] ELSE target[k]]

\* Lines 44-52: the exports of one module, applied in order to the three
\* collections.  Object.assign with null changes nothing.
RECURSIVE applyExports(_, _)
applyExports(exports, state) ==
    IF exports = <<>> THEN state
    ELSE LET e == Head(exports)
             next ==
                CASE e.type = "array" ->
                        [state EXCEPT !.allAbis = @ \o e.value]
                  [] e.key = "KNOWN_TOPICS" /\ e.type = "object" ->
                        [state EXCEPT !.knownTopics = ObjectAssign(@, e.value)]
                  [] e.key = "KNOWN_CONTRACTS" /\ e.type = "object" ->
                        [state EXCEPT !.knownContracts = ObjectAssign(@, e.value)]
                  [] OTHER -> state
         IN applyExports(Tail(exports), next)

InitAbis ==
    /\ registeredDecoders = <<>>
    /\ ALL_ABIS = COMMON_ERRORS_ABI
    /\ cache = NullCache
    /\ cacheModified = FALSE
    /\ file = Object(NoEntries)
    /\ pc = "idle"
    /\ payload = NoHex
    /\ found = NoOutcome
    /\ pluginResult = NoPluginResult
    /\ signatures = None
    /\ result = NoResult
    /\ log = <<>>
    /\ previous = None
    /\ selectorArg = <<>>
    /\ returned = NoReturn
    /\ queried = NoQueries
    /\ fileReads = 0
    /\ callers = [p \in Callers |-> NoCaller]
    /\ completions = <<>>
    /\ snapshot = None
    /\ registryOp = "idle"
    /\ loadedFrom = None
    /\ retry = NoRetry
    /\ manager = NoManager
    /\ detect = NoDetect
    /\ abiDir \in AbiDirectories
    /\ abiFiles = <<>>
    /\ abisPc = "idle"
    /\ knownTopics = baseKnownTopics
    /\ knownContracts = baseKnownContracts

abisSideVars ==
    <<registeredDecoders, cache, cacheModified, file, pc, payload, found,
      pluginResult, signatures, result, log, previous, selectorVars,
      concurrentVars, snapshotVars, retryVars, laterVars, abiDir>>

\* loadAbis, lines 28-38: the directory is looked at and listed.
LoadAbis ==
    /\ abisPc = "idle"
    /\ IF abiDir.kind = "ok"
       THEN /\ abiFiles' = SelectSeq(abiDir.files, LAMBDA f : f.isTs)
            /\ abisPc' = IF abiFiles' = <<>> THEN "done" ELSE "import"
       ELSE /\ abiFiles' = <<>>
            /\ abisPc' = "done"
    /\ UNCHANGED <<ALL_ABIS, knownTopics, knownContracts, abisSideVars>>

\* loadAbis, lines 40-56: one turn of the loop, the import of a file and
\* the merge of its exports, or the warning.
ImportAbi ==
    /\ abisPc = "import"
    /\ LET mod == Head(abiFiles)
           merged == applyExports(mod.exports,
                                  [allAbis |-> ALL_ABIS, knownTopics |-> knownTopics,
                                   knownContracts |-> knownContracts])
       IN IF mod.imports
          THEN /\ ALL_ABIS' = merged.allAbis
               /\ knownTopics' = merged.knownTopics
               /\ knownContracts' = merged.knownContracts
          ELSE UNCHANGED <<ALL_ABIS, knownTopics, knownContracts>>
    /\ abiFiles' = Tail(abiFiles)
    /\ abisPc' = IF abiFiles' = <<>> THEN "done" ELSE "import"
    /\ UNCHANGED abisSideVars

NextAbis == LoadAbis \/ ImportAbi

SpecAbis == InitAbis /\ [][NextAbis]_vars

---------------------------------------------------------------------------
(* retry.ts: withRetry.                                                    *)

MaxAttemptsGiven == 3

\* What fn throws: an Error with a message (its words), or a value that is
\* no Error and has no message.
Thrown(message) == [kind |-> "Error", message |-> message]
Errors ==
    {Thrown(<<"Rate", "limit", "exceeded">>), Thrown(<<"socket", "hang", "up">>),
     Thrown(<<"invalid", "argument">>), [kind |-> "value", message |-> <<>>]}

TypeError == [kind |-> "TypeError", message |-> <<>>]

\* String.prototype.toLowerCase on the words of the messages.
LowerWord(w) == IF w = "Rate" THEN "rate" ELSE w
MessageLower(message) == [i \in 1..Len(message) |-> LowerWord(message[i])]

\* message.includes(needle), word by word.
Includes(message, needle) ==
    \E i \in 1..Len(message) :
        /\ i + Len(needle) - 1 <= Len(message)
        /\ SubSeq(message, i, i + Len(needle) - 1) = needle

\* Lines 14-26 and the shouldRetry a caller gives: "true", "false", or
\* "raise" (error.message is undefined, toLowerCase is called on it).
shouldRetry(which, error) ==
    CASE which = "always" -> "true"
      [] which = "never" -> "false"
      [] error.kind # "Error" -> "raise"
      [] OTHER ->
            LET message == MessageLower(error.message) IN
            IF \E needle \in {<<"rate", "limit">>, <<"429">>, <<"timeout">>,
                               <<"etimedout">>, <<"econnreset">>, <<"enotfound">>,
                               <<"network">>, <<"socket">>} :
                    Includes(message, needle)
            THEN "true" ELSE "false"

\* The options a caller gives: maxAttempts or none, shouldRetry or none,
\* initialDelayMs or none (under and over maxDelayMs).
RetryOptions ==
    [maxAttempts : {None} \cup {Some(n) : n \in 0..MaxAttemptsGiven},
     shouldRetry : {None, Some("always")},
     initialDelayMs : {None, Some(6000), Some(20000)}]

\* Line 30: { ...DEFAULT_OPTIONS, ...options }
Opts(options) ==
    [DEFAULT_OPTIONS EXCEPT
        !.maxAttempts = IF IsSome(options.maxAttempts)
                        THEN Get(options.maxAttempts) ELSE @,
        !.shouldRetry = IF IsSome(options.shouldRetry)
                        THEN Get(options.shouldRetry) ELSE @,
        !.initialDelayMs = IF IsSome(options.initialDelayMs)
                           THEN Get(options.initialDelayMs) ELSE @]

Min(a, b) == IF a <= b THEN a ELSE b

Rejected(error) == [kind |-> "rejected", value |-> error]

\* Mutation: shouldRetry is not asked, only the last attempt ends the loop.
GivesUpAtLastAttempt(r, error) ==
    IF r.attempt = r.opts.maxAttempts THEN "throw" ELSE "sleep"

\* Line 40: attempt === opts.maxAttempts || !opts.shouldRetry(lastError);
\* "raise" when shouldRetry throws.
GivesUp(r, error) ==
    IF r.attempt = r.opts.maxAttempts THEN "throw"
    ELSE LET again == shouldRetry(r.opts.shouldRetry, error) IN
         CASE again = "raise" -> "raise"
           [] again = "false" -> "throw"
           [] OTHER -> "sleep"

\* Mutation: the delay grows without the cap.
NextDelayUncapped(r) == r.delay * r.opts.backoffMultiplier

\* Line 45: Math.min(delay * opts.backoffMultiplier, opts.maxDelayMs)
NextDelay(r) == Min(r.delay * r.opts.backoffMultiplier, r.opts.maxDelayMs)

retrySideVars ==
    <<registeredDecoders, ALL_ABIS, cache, cacheModified, file, pc, payload, found,
      pluginResult, signatures, result, log, previous, selectorVars,
      concurrentVars, snapshotVars, abisVars, laterVars>>

InitRetry == InitRegistry

\* withRetry, lines 29-34 and 49: the call up to the first invocation of fn;
\* with no turn of the loop, lastError (undefined) is thrown.
WithRetry ==
    \E options \in RetryOptions :
        /\ retry.pc \in {"idle", "done"}
        /\ LET opts == Opts(options) IN
           retry' = [NoRetry EXCEPT
                        !.opts = opts, !.attempt = 1,
                        !.delay = opts.initialDelayMs,
                        !.pc = IF 1 <= opts.maxAttempts THEN "call" ELSE "done",
                        !.outcome = IF 1 <= opts.maxAttempts THEN @
                                    ELSE Rejected(None)]
        /\ UNCHANGED retrySideVars

\* Line 36: fn returns.
FnResolves ==
    /\ retry.pc = "call"
    /\ retry' = [retry EXCEPT !.pc = "done", !.invocations = @ + 1,
                              !.outcome = [kind |-> "resolved",
                                           value |-> Some("success")]]
    /\ UNCHANGED retrySideVars

\* Lines 37-44: fn throws.
FnThrows ==
    \E error \in Errors :
        /\ retry.pc = "call"
        /\ LET then == GivesUp(retry, error)
               caught == [retry EXCEPT !.invocations = @ + 1,
                                       !.lastError = Some(error),
                                       !.thrown = Append(@, error)]
           IN retry' =
                CASE then = "throw" ->
                        [caught EXCEPT !.pc = "done",
                                       !.outcome = Rejected(Some(error))]
                  [] then = "raise" ->
                        [caught EXCEPT !.pc = "done",
                                       !.outcome = Rejected(Some(TypeError))]
                  [] OTHER -> [caught EXCEPT !.pc = "sleep",
                                             !.waits = Append(@, retry.delay)]
        /\ UNCHANGED retrySideVars

\* Lines 44-45 and 34: the sleep ends, the delay grows, the next turn.
SleepEnds ==
    /\ retry.pc = "sleep"
    /\ retry' = [retry EXCEPT
                    !.delay = NextDelay(retry),
                    !.attempt = @ + 1,
                    !.pc = IF retry.attempt + 1 <= retry.opts.maxAttempts
                           THEN "call" ELSE "done",
                    !.outcome = IF retry.attempt + 1 <= retry.opts.maxAttempts
                                THEN @ ELSE Rejected(retry.lastError)]
    /\ UNCHANGED retrySideVars

NextRetry == WithRetry \/ FnResolves \/ FnThrows \/ SleepEnds

SpecRetry == InitRetry /\ [][NextRetry]_vars

---------------------------------------------------------------------------
(* retry.ts: RpcManager.                                                   *)

maxFailures == 3

MaxReported == 4

RpcPool == <<"http://rpc1.com", "http://rpc2.com", "http://rpc3.com">>

\* constructor, lines 62-67.
RpcManager(rpcs) ==
    IF Len(rpcs) = 0 THEN [NoManager EXCEPT !.state = "raise"]
    ELSE [NoManager EXCEPT !.state = "ok", !.rpcs = rpcs]

\* getCurrentRpc, lines 69-75 (currentIndex counts from 0).
getCurrentRpc(m) == m.rpcs[m.currentIndex + 1]

\* this.failureCounts.get(rpc) ?? 0
FailuresOf(m, rpc) ==
    IF rpc \in DOMAIN m.failureCounts THEN m.failureCounts[rpc] ELSE 0

SetCount(m, rpc, n) ==
    [u \in DOMAIN m.failureCounts \cup {rpc} |->
        IF u = rpc THEN n ELSE m.failureCounts[u]]

\* The history counts: one more for rpc, or none again.
Counted(counts, rpc, more) ==
    [u \in DOMAIN counts \cup {rpc} |->
        IF u # rpc THEN counts[u]
        ELSE IF ~more THEN 0
        ELSE IF rpc \in DOMAIN counts THEN counts[rpc] + 1 ELSE 1]

CountOf(counts, rpc) == IF rpc \in DOMAIN counts THEN counts[rpc] ELSE 0

\* rotateRpc, lines 90-92.
rotateRpc(m) == [m EXCEPT !.currentIndex = (@ + 1) % Len(m.rpcs)]

\* reportFailure, lines 77-84.
reportFailure(m, rpc) ==
    LET failures == FailuresOf(m, rpc) + 1
        counted == [m EXCEPT !.failureCounts = SetCount(m, rpc, failures)]
    IN IF failures >= maxFailures /\ Len(m.rpcs) > 1 THEN rotateRpc(counted)
       ELSE counted

\* Mutation: a success leaves the count of failures as it is.
reportSuccessKeeping(m, rpc) ==
    [m EXCEPT !.failureCounts = SetCount(m, rpc, FailuresOf(m, rpc))]

\* reportSuccess, lines 86-88.
reportSuccess(m, rpc) == [m EXCEPT !.failureCounts = SetCount(m, rpc, 0)]

rpcSideVars ==
    <<registeredDecoders, ALL_ABIS, cache, cacheModified, file, pc, payload, found,
      pluginResult, signatures, result, log, previous, selectorVars,
      concurrentVars, snapshotVars, abisVars, retryVars, detect>>

InitRpc == InitRegistry

NewRpcManager ==
    \E n \in 0..Len(RpcPool) :
        /\ manager.state = "none"
        /\ manager' = [RpcManager(SubSeq(RpcPool, 1, n)) EXCEPT !.last.op = "new"]
        /\ UNCHANGED rpcSideVars

ReportFailure ==
    \E rpc \in Range(RpcPool) :
        /\ manager.state = "ok"
        /\ FailuresOf(manager, rpc) < MaxReported
        /\ manager' =
              [reportFailure(manager, rpc) EXCEPT
                 !.last = [op |-> "reportFailure", rpc |-> rpc,
                           before |-> manager.currentIndex],
                 !.sinceSuccess = Counted(@, rpc, TRUE),
                 !.whileCurrent = IF rpc = getCurrentRpc(manager)
                                  THEN Counted(@, rpc, TRUE) ELSE @]
        /\ UNCHANGED rpcSideVars

ReportSuccess ==
    \E rpc \in Range(RpcPool) :
        /\ manager.state = "ok"
        /\ manager' =
              [reportSuccess(manager, rpc) EXCEPT
                 !.last = [op |-> "reportSuccess", rpc |-> rpc,
                           before |-> manager.currentIndex],
                 !.sinceSuccess = Counted(@, rpc, FALSE),
                 !.whileCurrent = Counted(@, rpc, FALSE)]
        /\ UNCHANGED rpcSideVars

NextRpc == NewRpcManager \/ ReportFailure \/ ReportSuccess

SpecRpc == InitRpc /\ [][NextRpc]_vars

---------------------------------------------------------------------------
(* decode.ts: detectNestedCalls on its own, over arguments with arrays and *)
(* records.                                                                *)

MaxArgs == 2

TransferCall == HexString(Hex(TRANSFER_SELECTOR, <<W1, W2>>))
ApproveCall == HexString(Hex(APPROVE_SELECTOR, <<W1, W2>>))
ExecuteCall ==
    HexString(Hex(EXECUTE_SELECTOR, <<Bytes(Hex(TRANSFER_SELECTOR, <<W1, W2>>))>>))

\* The argument values of the model: byte strings that decode, one that
\* does not, one of a bare selector, a number, and arrays and records of
\* them.
ArgValues ==
    {TransferCall, ExecuteCall,
     HexString(Hex(UNKNOWN_SELECTOR, <<W1, W2>>)),
     HexString(Hex(PAUSE_SELECTOR, <<>>)),
     BigInt(1),
     ArrayOf(<<ApproveCall, ExecuteCall>>),
     ArrayOf(<<ObjectOf(<<BigInt(1), ApproveCall, TransferCall>>), TransferCall>>),
     ObjectOf(<<TransferCall>>),
     ArrayOf(<<ArrayOf(<<ApproveCall>>)>>),
     ArrayOf(<<ObjectOf(<<ObjectOf(<<TransferCall>>)>>)>>)}

DetectArgs ==
    {[i \in 1..Len(q) |-> [name |-> ArgName(i - 1), type |-> "unknown", value |-> q[i]]] :
        q \in SeqsUpTo(ArgValues, MaxArgs)}

detectSideVars ==
    <<registeredDecoders, ALL_ABIS, cache, cacheModified, file, pc, payload, found,
      pluginResult, signatures, result, log, previous, selectorVars,
      concurrentVars, snapshotVars, abisVars, retryVars, manager>>

InitDetect ==
    /\ registeredDecoders = <<>>
    /\ ALL_ABIS \in Catalogs
    /\ cache = NullCache
    /\ cacheModified = FALSE
    /\ file = Object(NoEntries)
    /\ pc = "idle"
    /\ payload = NoHex
    /\ found = NoOutcome
    /\ pluginResult = NoPluginResult
    /\ signatures = None
    /\ result = NoResult
    /\ log = <<>>
    /\ previous = None
    /\ selectorArg = <<>>
    /\ returned = NoReturn
    /\ queried = NoQueries
    /\ fileReads = 0
    /\ RestIdle

DetectNestedCalls ==
    \E args \in DetectArgs :
        /\ detect = NoDetect
        /\ detect' = [args |-> args, nested |-> detectNestedCalls(args),
                      examined |-> candidates(args), order |-> Visits(args, 1)]
        /\ UNCHANGED detectSideVars

NextDetect == DetectNestedCalls

SpecDetect == InitDetect /\ [][NextDetect]_vars

---------------------------------------------------------------------------
(* lookupSelector calls that overlap: a call runs up to its await, another *)
(* call or a completion runs in between.  Each caller makes one call.      *)

selectorSideVars ==
    <<registeredDecoders, ALL_ABIS, pc, payload, found, pluginResult, signatures,
      result, log, previous, selectorVars, snapshotVars, abisVars, retryVars,
      laterVars>>

InitConcurrent ==
    /\ registeredDecoders = <<>>
    /\ ALL_ABIS = COMMON_ERRORS_ABI
    /\ cache = NullCache
    /\ cacheModified = FALSE
    /\ file \in Files
    /\ pc = "idle"
    /\ payload = NoHex
    /\ found = NoOutcome
    /\ pluginResult = NoPluginResult
    /\ signatures = None
    /\ result = NoResult
    /\ log = <<>>
    /\ previous = None
    /\ selectorArg = <<>>
    /\ returned = NoReturn
    /\ queried = NoQueries
    /\ fileReads = 0
    /\ RestIdle

Pending(p) == callers[p].pc \in {"fetchFrom4byte", "fetchFromOpenchain"}

\* lookupSelector, lines 89-102, called by p.
ConcurrentLookup(p) ==
    \E s \in {UNKNOWN_SELECTOR, TRANSFER_SELECTOR, <<"A9", "05", "9C", "BB">>} :
        /\ callers[p].pc = "idle"
        /\ \E r \in {lookupSelectorStart(cache, file, s)} :
            /\ cache' = r.cache
            /\ callers' = [callers EXCEPT ![p] =
                    [pc |-> IF r.kind = "await" THEN "fetchFrom4byte" ELSE "done",
                     selector |-> s,
                     sigs |-> IF r.kind = "return" THEN Some(r.sigs) ELSE None,
                     remote |-> <<>>,
                     kind |-> IF r.kind = "await" THEN "pending" ELSE r.kind,
                     pending |-> {q \in Callers \ {p} : Pending(q)},
                     wrote |-> "none"]]
            /\ completions' = IF r.kind = "await" THEN completions
                              ELSE Append(completions, p)
        /\ UNCHANGED <<cacheModified, file, selectorSideVars>>

\* lookupSelector, lines 108-111, in the call of p.
ConcurrentReturns(p, sigs, writeOk, asked) ==
    LET written == addToCache(cache, file, ToLowerCase(callers[p].selector), sigs) IN
    /\ cache' = written
    /\ file' = saveCache(written, TRUE, file, writeOk)
    /\ cacheModified' = ~writeOk
    /\ callers' = [callers EXCEPT ![p].pc = "done", ![p].kind = "return",
                                  ![p].sigs = Some(sigs),
                                  ![p].remote = Append(@, asked),
                                  ![p].wrote = IF writeOk THEN "ok" ELSE "failed"]
    /\ completions' = Append(completions, p)
    /\ UNCHANGED selectorSideVars

\* lookupSelector, lines 102-106: fetchFrom4byte returns to p.
ConcurrentFetch4byteReturns(p) ==
    \E response \in Responses4byte, writeOk \in BOOLEAN :
        /\ callers[p].pc = "fetchFrom4byte"
        /\ LET sigs == fetchFrom4byte(response)
               asked == [api |-> "fetchFrom4byte", response |-> response]
           IN IF QueryOpenchain(sigs)
              THEN /\ callers' = [callers EXCEPT ![p].pc = "fetchFromOpenchain",
                                                 ![p].remote = Append(@, asked)]
                   /\ UNCHANGED <<cache, cacheModified, file, completions,
                                  selectorSideVars>>
              ELSE ConcurrentReturns(p, sigs, writeOk, asked)

\* lookupSelector, lines 105-111: fetchFromOpenchain returns to p.
ConcurrentFetchOpenchainReturns(p) ==
    \E response \in ResponsesOpenchain, writeOk \in BOOLEAN :
        /\ callers[p].pc = "fetchFromOpenchain"
        /\ ConcurrentReturns(p, fetchFromOpenchain(response), writeOk,
                             [api |-> "fetchFromOpenchain", response |-> response])

NextConcurrent ==
    \E p \in Callers :
        \/ ConcurrentLookup(p)
        \/ ConcurrentFetch4byteReturns(p)
        \/ ConcurrentFetchOpenchainReturns(p)

SpecConcurrent == InitConcurrent /\ [][NextConcurrent]_vars

---------------------------------------------------------------------------
(* Claims about the registry. *)

Positions == 1..Len(registeredDecoders)
Matches(i) == Match(registeredDecoders[i].dec, payload) = "true"
PriorityAt(i) == PriorityOf(registeredDecoders[i].dec)

\* C5: when findDecoder returns, it returns the first decoder of the list
\* whose match returns true, and none when no match returns true; the decoder
\* decodeWithPlugins then asks has the highest priority of all the matching
\* decoders, and its decode output (none when it raises or returns none) is
\* the result, however the decoders were loaded or registered.
C5_FirstMatchWins ==
    /\ found.kind = "found" =>
            /\ found.at \in Positions
            /\ Matches(found.at)
            /\ \A j \in Positions : j < found.at => ~Matches(j)
            /\ \A j \in Positions : Matches(j) => PriorityAt(found.at) >= PriorityAt(j)
            /\ pluginResult.by = found.at
            /\ LET r == Decode(registeredDecoders[found.at].dec, payload) IN
               IF r.kind = "ok"
               THEN pluginResult.kind = "ok" /\ pluginResult.value = r.value
               ELSE pluginResult.kind = "null" /\ pluginResult.value = None
    /\ found.kind = "none" =>
            /\ \A j \in Positions : ~Matches(j)
            /\ pluginResult.kind = "null"

\* Two matching decoders of different priorities, the lower one registered
\* first, and the call answered by the higher one.
C5_Witness ==
    /\ found.kind = "found"
    /\ pluginResult.kind = "ok"
    /\ \E j \in Positions :
            /\ Matches(j)
            /\ PriorityAt(j) < PriorityAt(found.at)
            /\ registeredDecoders[j].stamp < registeredDecoders[found.at].stamp

\* C6: the registry is ordered by non-increasing priority (a missing
\* priority counts as 0); decoders of equal priority keep the order of their
\* discovery or registration, project-level before user-level within a load.
C6_SortedStable ==
    \A i, j \in Positions :
        i < j =>
            /\ PriorityAt(i) >= PriorityAt(j)
            /\ PriorityAt(i) = PriorityAt(j) =>
                    /\ registeredDecoders[i].stamp < registeredDecoders[j].stamp
                    /\ ~(registeredDecoders[i].origin = "user"
                          /\ registeredDecoders[j].origin = "project")

\* A loaded list that a later registration was sorted into: equal priorities
\* from both directories and from a registration, and a missing priority.
C6_Witness ==
    /\ Len(registeredDecoders) >= 3
    /\ \E i, j, k \in Positions :
            /\ i < j /\ j < k
            /\ PriorityAt(i) = PriorityAt(j) /\ PriorityAt(j) = PriorityAt(k)
            /\ registeredDecoders[i].origin = "project"
            /\ registeredDecoders[j].origin = "user"
            /\ registeredDecoders[k].origin = "register"
            /\ DecoderPool[registeredDecoders[k].dec].priority = None

---------------------------------------------------------------------------
(* Claims about decodeCalldata. *)

Logged(e) == \E i \in 1..Len(log) : log[i].ev = e
Returned == pc = "done" /\ result.kind = "return"
OpaqueArgs == <<[name |-> "data", type |-> "bytes", value |-> Slice10(payload)]>>

\* C1: a payload shorter than 4 bytes (under 10 characters) makes
\* decodeCalldata fail, before any plugin, catalog or selector-cache step.
C1_ShortPayloadRejected ==
    (pc = "done" /\ Length(payload) < 10) =>
        (result.kind = "raise" /\ log = <<>>)

\* C2: for every payload of at least 4 bytes decodeCalldata completes by
\* returning a DecodedCall; it raises no error, whatever the plugins, the
\* catalog, the persisted cache and the remote outcomes are.
C2_NeverRaises ==
    (pc = "done" /\ Length(payload) >= 10) => result.kind = "return"

StageOf(e) ==
    CASE e.ev \in {"match", "decode"} -> 1
      [] e.ev \in {"decodeFunctionData", "detectNestedCalls"} -> 2
      [] OTHER -> 3

CatalogResolves == decodeFunctionData(ALL_ABIS, payload).kind = "ok"

\* C3: the stages of one call run in the order plugins, catalog, selector
\* cache; a stage is attempted only after every earlier stage finished
\* without a result, the first stage with a result gives the returned
\* DecodedCall, and lookupSelector is not called when a plugin or the catalog
\* resolved the payload.
C3_StagesInOrder ==
    /\ \A i, j \in 1..Len(log) : i < j => StageOf(log[i]) <= StageOf(log[j])
    /\ (\E i \in 1..Len(log) : StageOf(log[i]) >= 2) =>
            (pluginResult.kind = "null" /\ Logged("match") = (registeredDecoders # <<>>))
    /\ (\E i \in 1..Len(log) : StageOf(log[i]) = 3) =>
            (Logged("decodeFunctionData") /\ ~CatalogResolves)
    /\ Returned =>
            /\ pluginResult.kind = "ok" =>
                    /\ result.stage = "plugins"
                    /\ result.value.functionName = Some(Get(pluginResult.value).name)
            /\ (pluginResult.kind = "null" /\ CatalogResolves) =>
                    /\ result.stage = "catalog"
                    /\ result.value.functionName =
                            Some(decodeFunctionData(ALL_ABIS, payload).functionName)
            /\ (pluginResult.kind = "null" /\ ~CatalogResolves) =>
                    /\ result.stage = "cache"
                    /\ result.value.functionName = None
    /\ (pluginResult.kind = "ok" \/ (pluginResult.kind = "null" /\ CatalogResolves)) =>
            ~Logged("lookupSelector")

\* A call the catalog would have resolved is answered by a plugin, and a
\* call goes through all three stages down to the remote queries.
C3_Witness ==
    \/ /\ Returned /\ result.stage = "plugins" /\ CatalogResolves
    \/ /\ Returned /\ result.stage = "cache" /\ Logged("match")
       /\ Logged("fetchFromOpenchain")

\* C4: a structured plugin result is returned as the DecodedCall, name and
\* params unchanged and the nested list the plugin's own; neither the
\* catalog, nor detectNestedCalls, nor the selector cache is used.
C4_PluginResultReturned ==
    (pc = "done" /\ pluginResult.kind = "ok") =>
        /\ result.kind = "return"
        /\ result.value.functionName = Some(Get(pluginResult.value).name)
        /\ result.value.args = Get(pluginResult.value).params
        /\ IsSome(result.value.nested) = IsSome(Get(pluginResult.value).nested)
        /\ IsSome(result.value.nested) =>
                /\ Len(Get(result.value.nested)) = Len(Get(Get(pluginResult.value).nested))
                /\ \A i \in 1..Len(Get(result.value.nested)) :
                        Get(result.value.nested)[i].functionName =
                            Some(Get(Get(pluginResult.value).nested)[i].name)
        /\ \A i \in 1..Len(log) : log[i].ev \in {"match", "decode"}
        /\ signatures = None

\* The plugin's params hold a byte string that the catalog decodes: nested
\* detection would have found a call in them.
C4_Witness ==
    /\ pc = "done" /\ pluginResult.kind = "ok"
    /\ detectNestedCalls(result.value.args) # <<>>

DecodeRaises ==
    /\ found.kind = "found"
    /\ Decode(registeredDecoders[found.at].dec, payload).kind = "raise"

\* C7: when the decode of the matched plugin raises, decodeWithPlugins
\* returns none and decodeCalldata goes on with the catalog stage and ends as
\* the same call does with no plugin registered.
C7_DecodeFailureSwallowed ==
    (pc = "done" /\ DecodeRaises) =>
        /\ pluginResult.kind = "null"
        /\ Len(log) > found.at + 1
        /\ log[found.at + 1] = Ev("decode", found.at)
        /\ log[found.at + 2] = Ev("decodeFunctionData", 0)
        /\ LET alone == decodeCalldata(<<>>, cache, file, payload) IN
            /\ result.kind = alone.kind
            /\ result.value = alone.value
            /\ result.stage = alone.stage

\* The raising decoder matched a payload that the catalog then resolved.
C7_Witness ==
    /\ pc = "done" /\ DecodeRaises
    /\ result.kind = "return" /\ result.stage = "catalog"

\* C8: the args of a catalog-decoded call have the length, the order and the
\* types of the parameter list of the descriptor that decoded the payload,
\* also when several descriptors share a name.
C8_ArgsFollowDescriptor ==
    (Returned /\ result.stage = "catalog") =>
        LET inputs == InputsOf(ALL_ABIS[decodeFunctionData(ALL_ABIS, payload).by]) IN
        /\ Len(result.value.args) = Len(inputs)
        /\ \A i \in 1..Len(inputs) : result.value.args[i].type = inputs[i].type

Functions == {i \in 1..Len(ALL_ABIS) : ALL_ABIS[i].type = "function"}

\* The parameter list of descriptor i decodes the bytes after the selector.
DecodesStructurally(i) ==
    \/ Len(InputsOf(ALL_ABIS[i])) = 0
    \/ decodeAbiParameters(InputsOf(ALL_ABIS[i]),
                           [sel |-> <<>>, body |-> payload.body, tail |-> payload.tail])
            # None

Least(S) == CHOOSE i \in S : \A j \in S : i <= j

CatalogRan == pc = "done" /\ Logged("decodeFunctionData")

C10_LastSignature ==
    (Returned /\ result.stage = "cache" /\ IsSome(signatures)
     /\ Len(Get(signatures)) > 0) =>
        /\ result.value.functionName = None
        /\ result.value.signature = Some(Get(signatures)[Len(Get(signatures))])
        /\ result.value.args = OpaqueArgs

\* A list of two signatures, from the remote query or from the cache.
C10_Witness ==
    /\ Returned /\ result.stage = "cache"
    /\ IsSome(signatures) /\ Len(Get(signatures)) = 2
    /\ result.value.signature = Some("bar()")

\* C11: with no plugin and no catalog result and an empty list from
\* lookupSelector, the DecodedCall holds the selector, no functionName, no
\* signature, and exactly one opaque argument with the bytes after the
\* selector.
C11_OpaqueFallback ==
    (Returned /\ pluginResult.kind # "ok" /\ ~CatalogResolves
     /\ signatures = Some(<<>>)) =>
        /\ result.value.selector = ToLowerCase(Slice0to10(payload))
        /\ result.value.functionName = None
        /\ result.value.signature = None
        /\ Len(result.value.args) = 1
        /\ result.value.args[1].name = "data"
        /\ result.value.args[1].type = "bytes"
        /\ result.value.args[1].value.kind = "string"
        /\ result.value.args[1].value.hex =
                [sel |-> <<>>, body |-> payload.body, tail |-> payload.tail]

\* Both remote databases answered with nothing for a payload that has bytes
\* after its selector.
C11_Witness ==
    /\ Returned /\ result.stage = "cache" /\ signatures = Some(<<>>)
    /\ Logged("fetchFromOpenchain")
    /\ payload.sel = UNKNOWN_SELECTOR /\ Len(payload.body) = 2
    /\ result.value.signature = None

\* C12: a payload of exactly 4 bytes that no plugin, no catalog descriptor
\* and no known signature resolves gives a DecodedCall with that selector,
\* no functionName and an empty args list.
C12_FourBytesNoArgs ==
    (Returned /\ ByteLen(payload) = 4 /\ pluginResult.kind # "ok"
     /\ ~CatalogResolves /\ signatures = Some(<<>>)) =>
        /\ result.value.selector = ToLowerCase(Slice0to10(payload))
        /\ result.value.functionName = None
        /\ result.value.args = <<>>

\* An argument value that is a candidate and that a stage resolves as a call:
\* a registered plugin decodes it, or the catalog does.
ResolvesAsCall(h) ==
    \/ decodeWithPlugins(registeredDecoders, h).kind = "ok"
    \/ decodeFunctionData(ALL_ABIS, h).kind = "ok"

CallLike(args) ==
    {i \in 1..Len(args) :
        IsCandidate(args[i].value) /\ ResolvesAsCall(args[i].value.hex)}

\* C13: in a catalog-decoded call every top-level argument whose byte string
\* decodes as a call, through the catalog or through a registered plugin
\* that matches it, gives exactly one entry of the nested list, and an
\* argument that no stage decodes gives none.
C13_NestedPerArgument ==
    (Returned /\ result.stage = "catalog") =>
        /\ IsSome(result.value.nested)
        /\ Len(Get(result.value.nested)) = Cardinality(CallLike(result.value.args))

RECURSIVE Depth(_)
\* The depth of the nested tree below a DecodedCall.
Depth(call) ==
    IF ~IsSome(call.nested) \/ Get(call.nested) = <<>> THEN 0
    ELSE LET below == {Depth(Get(call.nested)[i]) : i \in 1..Len(Get(call.nested))}
         IN 1 + CHOOSE m \in below : \A k \in below : k <= m

\* C14: nested-call detection stops at an explicit maximum depth: the tree
\* decodeCalldata returns is never deeper than that maximum (two levels
\* here), also for a payload whose every decoded call holds a call again.
C14_DepthBounded ==
    Returned => Depth(result.value) <= 2

\* C15: a decodeCalldata call on the payload of the call before it, with the
\* registry, the catalog and the selector cache not modified between or
\* during the two, ends as the call before did, with an equal DecodedCall.
C15_Idempotent ==
    (pc = "done" /\ IsSome(previous) /\ ~Get(previous).modified
     /\ ~Logged("addToCache")) =>
        result = Get(previous).result

\* Two calls in a row on one payload, both answered by the selector cache.
C15_Witness ==
    /\ pc = "done" /\ IsSome(previous) /\ ~Get(previous).modified
    /\ Returned /\ result.stage = "cache"
    /\ signatures = Some(<<"foo()", "bar()">>)
    /\ result.value.signature = Some("bar()")

---------------------------------------------------------------------------
(* Claims about the selector cache. *)

\* The mapping a call finds: the cache in memory, or the file when nothing
\* is loaded yet.
Held == loadCache(cache, file)
Key == ToLowerCase(selectorArg)
Missed == pc = "done" /\ returned.op = "lookupSelector" /\ returned.wrote # "none"
Answer(asked) ==
    IF asked.response.kind = "ok" THEN asked.response.results ELSE <<>>

\* C16: a lookupSelector call whose lower-cased selector has an entry, the
\* empty list included, returns that entry with no remote query and no write
\* of the cache or the file; lookupSelectorSync returns the entry when there
\* is one, the empty list included, and undefined when there is none.
C16_HitWithoutIO ==
    [][/\ (/\ pc \in {"idle", "done"} /\ returned'.op = "lookupSelector"
           /\ Len(selectorArg') = 4 /\ Held.kind = "object"
           /\ ToLowerCase(selectorArg') \in DOMAIN Held.entries) =>
              /\ pc' = "done"
              /\ returned'.kind = "return"
              /\ returned'.sigs = Some(Held.entries[ToLowerCase(selectorArg')])
              /\ returned'.remote = <<>> /\ log' = <<>> /\ queried' = queried
              /\ cache' = Held /\ file' = file /\ cacheModified' = cacheModified
       /\ (/\ pc \in {"idle", "done"} /\ returned'.op = "lookupSelectorSync"
           /\ Held.kind = "object") =>
              /\ returned'.kind = "return"
              /\ ToLowerCase(selectorArg') \in DOMAIN Held.entries =>
                     returned'.sigs = Some(Held.entries[ToLowerCase(selectorArg')])
              /\ ToLowerCase(selectorArg') \notin DOMAIN Held.entries =>
                     returned'.sigs = None
      ]_vars

\* A lookup answered by a cached empty list.
C16_Witness ==
    /\ pc = "done" /\ returned.op = "lookupSelector" /\ returned.wrote = "none"
    /\ Len(selectorArg) = 4 /\ cache.kind = "object"
    /\ Key \in DOMAIN cache.entries /\ cache.entries[Key] = <<>>
    /\ returned.sigs = Some(<<>>) /\ queried[Key] = 1

\* C17: a lookup that missed and completed leaves its outcome, empty or
\* not, in the cache under the lower-cased selector, and between two
\* clearCache calls no selector is looked up remotely more than once.
C17_QueriedOnce ==
    /\ Missed => (/\ cache.kind = "object" /\ Key \in DOMAIN cache.entries
                  /\ Some(cache.entries[Key]) = returned.sigs)
    /\ \A s \in DOMAIN queried : queried[s] <= 1

\* A selector in upper case answered from the cache after its one remote
\* lookup, which found nothing.
C17_Witness ==
    /\ pc = "done" /\ returned.op = "lookupSelector" /\ returned.wrote = "none"
    /\ selectorArg = <<"A9", "05", "9C", "BB">>
    /\ queried[Key] = 1 /\ returned.sigs = Some(<<>>)

\* C18: a lookup that missed asks 4byte first and openchain only when 4byte
\* gave the empty list (a failure counts as empty); it returns the first
\* non-empty answer, and the empty list when there is none.
C18_RemoteOrder ==
    /\ pc = "fetchFromOpenchain" =>
            /\ Len(returned.remote) = 1
            /\ returned.remote[1].api = "fetchFrom4byte"
            /\ Answer(returned.remote[1]) = <<>>
    /\ Missed =>
            /\ Len(returned.remote) \in {1, 2}
            /\ returned.remote[1].api = "fetchFrom4byte"
            /\ Len(returned.remote) = 1 =>
                    /\ Answer(returned.remote[1]) # <<>>
                    /\ returned.sigs = Some(Answer(returned.remote[1]))
            /\ Len(returned.remote) = 2 =>
                    /\ Answer(returned.remote[1]) = <<>>
                    /\ returned.remote[2].api = "fetchFromOpenchain"
                    /\ returned.sigs = Some(Answer(returned.remote[2]))

\* 4byte found nothing and openchain answered.
C18_Witness ==
    /\ Missed /\ Len(returned.remote) = 2
    /\ returned.remote[1].response.kind = "ok"
    /\ returned.sigs = Some(<<"baz()">>)

AllFailed ==
    /\ returned.remote # <<>>
    /\ \A i \in 1..Len(returned.remote) : returned.remote[i].response.kind # "ok"

\* C19: a remote lookup that fails raises nothing out of lookupSelector and
\* counts as the empty list; when every remote lookup of a call failed the
\* call returns the empty list and the cache holds the empty list for the
\* selector.
C19_FailureIsEmpty ==
    /\ (returned.op = "lookupSelector" /\ returned.remote # <<>>) =>
            returned.kind \in {"pending", "return"}
    /\ (Missed /\ AllFailed) =>
            /\ returned.kind = "return" /\ returned.sigs = Some(<<>>)
            /\ cache.kind = "object" /\ Key \in DOMAIN cache.entries
            /\ cache.entries[Key] = <<>>

\* Both databases failed, one with a response that is not a success.
C19_Witness ==
    /\ Missed /\ AllFailed /\ Len(returned.remote) = 2
    /\ returned.remote[1].response.kind = "notok"
    /\ returned.sigs = Some(<<>>)

C21_ReadOnceNoWrite ==
    /\ fileReads <= 1
    /\ (/\ pc = "done" /\ returned.remote = <<>>
        /\ returned.op \in {"lookupSelector", "lookupSelectorSync"}) =>
            returned.wrote = "none"

\* C23: whatever selectors.json holds (nothing, something that does not
\* parse, something that is no mapping), lookupSelector and
\* lookupSelectorSync do not raise.
C23_AnyFileNoRaise ==
    returned.kind # "raise"

\* C24: for a selector that is not 10 characters long or does not start
\* with 0x, lookupSelector returns the empty list and neither loads the
\* cache, nor asks a remote database, nor adds an entry.
C24_InvalidSelector ==
    [][(/\ pc \in {"idle", "done"} /\ returned'.op = "lookupSelector"
        /\ \/ StringLength(selectorArg') # 10
           \/ ~StartsWith0x(selectorArg')) =>
            /\ pc' = "done"
            /\ returned'.kind = "return" /\ returned'.sigs = Some(<<>>)
            /\ returned'.remote = <<>> /\ returned'.wrote = "none"
            /\ cache' = cache /\ file' = file /\ cacheModified' = cacheModified
            /\ fileReads' = fileReads /\ queried' = queried
      ]_vars

\* Ten characters without 0x looked up, the cache still not loaded.
C24_Witness ==
    /\ pc = "done" /\ returned.op = "lookupSelector"
    /\ StringLength(selectorArg) = 10 /\ ~StartsWith0x(selectorArg)
    /\ returned.sigs = Some(<<>>)
    /\ cache = NullCache /\ fileReads = 0 /\ file.kind = "object"

\* Two calls for one key, q still waiting for its answer when p started,
\* both complete now.
Overlapped(p, q) ==
    /\ p # q /\ q \in callers[p].pending
    /\ ToLowerCase(callers[p].selector) = ToLowerCase(callers[q].selector)
    /\ callers[p].pc = "done" /\ callers[q].pc = "done"

LastCompleted == completions[Len(completions)]

\* C22: lookupSelector calls for one uncached selector that overlap are not
\* merged: both miss and both query, the entry after both completed is the
\* list of the call that completed last, and each call returns the list of
\* its own queries.
C22_LastWriterWins ==
    \A p \in Callers : \A q \in Callers :
        Overlapped(p, q) =>
            /\ \A x \in {p, q} :
                /\ callers[x].kind = "return"
                /\ Len(callers[x].remote) > 0
                /\ callers[x].remote[1].api = "fetchFrom4byte"
                /\ callers[x].sigs =
                       Some(Answer(callers[x].remote[Len(callers[x].remote)]))
            /\ cache.kind = "object"
            /\ ToLowerCase(callers[p].selector) \in DOMAIN cache.entries
            /\ Some(cache.entries[ToLowerCase(callers[p].selector)]) =
                   callers[LastCompleted].sigs

\* Two overlapping calls that were answered differently: the one that
\* completed first returned a list the cache does not hold.
C22_Witness ==
    \E p \in Callers : \E q \in Callers :
        /\ Overlapped(p, q)
        /\ callers[p].sigs # callers[q].sigs
        /\ callers[p].selector # callers[q].selector
        /\ \E x \in {p, q} :
            /\ x # LastCompleted
            /\ callers[x].sigs # Some(cache.entries[ToLowerCase(callers[x].selector)])
            /\ callers[x].sigs # Some(<<>>)

RECURSIVE Nodes(_)
\* The DecodedCalls of a tree: the call and everything nested below it.
Nodes(call) ==
    {call} \cup (IF IsSome(call.nested)
                 THEN UNION {Nodes(Get(call.nested)[i]) :
                                i \in 1..Len(Get(call.nested))}
                 ELSE {})

\* C25: every DecodedCall of a returned tree, the root and every nested
\* entry, found by the catalog or supplied by a plugin, has as selector the
\* lower-cased first four bytes of the payload it was decoded from: four
\* bytes in lower case everywhere, those of the payload at the root.
C25_SelectorEverywhere ==
    (Returned /\ Length(payload) >= 10) =>
        /\ result.value.selector = ToLowerCase(Slice0to10(payload))
        /\ \A call \in Nodes(result.value) :
            /\ Len(call.selector) = 4
            /\ call.selector = ToLowerCase(call.selector)

\* C27: a DecodedCall with a signature has no function name, has the one
\* opaque argument as args and has no nested entry.
C27_SignatureShape ==
    Returned =>
        \A call \in Nodes(result.value) :
            IsSome(call.signature) =>
                /\ call.functionName = None
                /\ Len(call.args) = 1
                /\ call.args[1].name = "data" /\ call.args[1].type = "bytes"
                /\ call = result.value /\ call.args = OpaqueArgs
                /\ (call.nested = None \/ call.nested = Some(<<>>))

\* A call the cache names, with bytes after the selector.
C27_Witness ==
    /\ Returned /\ IsSome(result.value.signature)
    /\ result.stage = "cache" /\ Len(payload.body) > 0
    /\ result.value.args = OpaqueArgs /\ result.value.nested = None

\* C26: getDecoders returns a copy: a change of the returned list leaves the
\* registry as it was, and registerDecoder and loadAllDecoders leave a list
\* returned before as it was.
C26_SnapshotCopy ==
    [][/\ registryOp' = "mutate" => registeredDecoders' = registeredDecoders
       /\ registryOp' \in {"registerDecoder", "loadAllDecoders"} =>
              snapshot' = snapshot
      ]_vars

\* A list was returned and changed by its caller, then a decoder was
\* registered: the two lists differ.
C26_Witness ==
    /\ IsSome(snapshot) /\ registryOp = "registerDecoder"
    /\ Len(Get(snapshot).items) = 2 /\ Get(snapshot).items[2].origin = "caller"
    /\ Len(registeredDecoders) = 3

\* The number of times a decoder is exported, with the decoder shape, by the
\* modules of a directory that are read and imported.
TimesExported(dir, d) ==
    IF dir.kind # "ok" THEN 0
    ELSE Cardinality({<<i, j>> \in (1..Len(dir.files)) \X (1..4) :
            /\ dir.files[i].isDecoderFile /\ dir.files[i].imports
            /\ j <= Len(dir.files[i].exports)
            /\ dir.files[i].exports[j].type = "object"
            /\ dir.files[i].exports[j].hasName /\ dir.files[i].exports[j].hasMatch
            /\ dir.files[i].exports[j].dec = d})

TimesRegistered(d, origin) ==
    Cardinality({i \in 1..Len(registeredDecoders) :
                    registeredDecoders[i].dec = d
                    /\ registeredDecoders[i].origin = origin})

\* C28: loadAllDecoders does not fail: a directory that is missing or
\* cannot be read gives nothing, a module that fails to import and an export
\* without the decoder shape are skipped, and every decoder the other
\* modules export is registered.
C28_LoadSkipsFailures ==
    (registryOp = "loadAllDecoders" /\ IsSome(loadedFrom)) =>
        \A d \in DecoderIds :
            /\ TimesRegistered(d, "project") = TimesExported(Get(loadedFrom).project, d)
            /\ TimesRegistered(d, "user") = TimesExported(Get(loadedFrom).user, d)
            /\ TimesRegistered(d, "register") = 0

\* A project directory whose first module fails to import and a user
\* directory with a module of no decoder shape: the decoders of the other
\* modules are registered.
C28_Witness ==
    /\ registryOp = "loadAllDecoders" /\ IsSome(loadedFrom)
    /\ Get(loadedFrom).project.kind = "ok" /\ Get(loadedFrom).project.files[1] = Broken
    /\ Get(loadedFrom).user.kind = "ok" /\ Shapeless \in Range(Get(loadedFrom).user.files)
    /\ Len(registeredDecoders) = 3

\* The sources of abi/ that count: read, with the .ts suffix, imported.
Merged ==
    IF abiDir.kind # "ok" THEN <<>>
    ELSE SelectSeq(abiDir.files, LAMBDA f : f.isTs /\ f.imports)

RECURSIVE ArraysOf(_)
\* The array exports of a list of exports, one after the other.
ArraysOf(exports) ==
    IF exports = <<>> THEN <<>>
    ELSE (IF Head(exports).type = "array" THEN Head(exports).value ELSE <<>>)
         \o ArraysOf(Tail(exports))

RECURSIVE ArraysOfAll(_)
ArraysOfAll(sources) ==
    IF sources = <<>> THEN <<>>
    ELSE ArraysOf(Head(sources).exports) \o ArraysOfAll(Tail(sources))

\* The sources that define key k of the map exported as name.
Defining(name, k) ==
    {i \in 1..Len(Merged) :
        \E j \in 1..Len(Merged[i].exports) :
            /\ Merged[i].exports[j].key = name
            /\ Merged[i].exports[j].type = "object"
            /\ k \in DOMAIN Merged[i].exports[j].value}

\* The value of key k of the map exported as name by source i.
ValueIn(name, i, k) ==
    LET j == CHOOSE j \in 1..Len(Merged[i].exports) :
                 Merged[i].exports[j].key = name
    IN Merged[i].exports[j].value[k]

LastWins(map, base, name) ==
    /\ \A k \in DOMAIN base : k \in DOMAIN map
    /\ \A k \in DOMAIN map :
        IF Defining(name, k) = {}
        THEN k \in DOMAIN base /\ map[k] = base[k]
        ELSE LET last == CHOOSE i \in Defining(name, k) :
                             \A o \in Defining(name, k) : o <= i
             IN map[k] = ValueIn(name, last, k)

\* C29: once the catalog is loaded, ALL_ABIS is the built-in descriptors
\* followed by the array exports of the sources in load order, each key of
\* the two name maps has the value of the last source that defines it (the
\* built-in value if none does), and a source that fails to load is left
\* out without an effect on the others.
C29_MergedInOrder ==
    abisPc = "done" =>
        /\ ALL_ABIS = COMMON_ERRORS_ABI \o ArraysOfAll(Merged)
        /\ LastWins(knownTopics, baseKnownTopics, "KNOWN_TOPICS")
        /\ LastWins(knownContracts, baseKnownContracts, "KNOWN_CONTRACTS")

\* Two sources that name the same topic with a failing one between them.
C29_Witness ==
    /\ abisPc = "done" /\ abiDir.kind = "ok" /\ Len(abiDir.files) = 3
    /\ ~abiDir.files[2].imports
    /\ knownTopics["0xddf252ad"] = "Transfer (ERC-721)"
    /\ knownContracts["0xc02aaa39"] = "WETH"
    /\ ALL_ABIS = COMMON_ERRORS_ABI \o <<Transfer, Approve, Execute>>

\* shouldRetry says of every error in errors that it is worth a retry.
AllRetryable(errors) ==
    \A i \in 1..Len(errors) : shouldRetry(retry.opts.shouldRetry, errors[i]) = "true"

\* C30: withRetry invokes fn at most maxAttempts times; a success ends the
\* call with that result and no further invocation; an error shouldRetry
\* refuses ends the call at once, after one invocation when it is the
\* first; maxAttempts retryable failures in a row end it with the last
\* error fn threw.
C30_BoundedRetries ==
    /\ retry.invocations <= retry.opts.maxAttempts
    /\ retry.outcome.kind = "resolved" =>
            /\ retry.pc = "done"
            /\ retry.invocations = Len(retry.thrown) + 1
            /\ AllRetryable(retry.thrown)
    /\ (/\ retry.pc = "done" /\ retry.thrown # <<>>
        /\ shouldRetry(retry.opts.shouldRetry, retry.thrown[1]) = "false") =>
            /\ retry.invocations = 1
            /\ retry.outcome = Rejected(Some(retry.thrown[1]))
    /\ (Len(retry.thrown) = retry.opts.maxAttempts /\ AllRetryable(retry.thrown)
        /\ retry.thrown # <<>>) =>
            /\ retry.pc = "done"
            /\ retry.outcome = Rejected(Some(retry.thrown[Len(retry.thrown)]))

\* Three retryable failures with the default options, the last one another
\* error than the first.
C30_Witness ==
    /\ retry.pc = "done" /\ retry.opts = DEFAULT_OPTIONS
    /\ Len(retry.thrown) = 3 /\ retry.invocations = 3
    /\ retry.thrown[1] # retry.thrown[3]
    /\ retry.outcome = Rejected(Some(retry.thrown[3]))
    /\ retry.delay = 4000

\* The last call was a reportFailure for the RPC that was current.
FailedCurrent ==
    /\ manager.state = "ok" /\ manager.last.op = "reportFailure"
    /\ manager.last.rpc = manager.rpcs[manager.last.before + 1]

\* C31: an RpcManager cannot be made of no URL; a new one returns its first
\* URL; the third reportFailure call made for an RPC while it is current,
\* with no reportSuccess for it between the three, leaves the next URL
\* current (the first after the last); a reportFailure call that is not at
\* least the third for its RPC since the last reportSuccess for it leaves
\* the current RPC as it is.
C31_RotatesAfterThree ==
    /\ manager.state = "raise" <=> (manager.last.op = "new" /\ manager.rpcs = <<>>)
    /\ (manager.state = "ok" /\ manager.last.op = "new") =>
            getCurrentRpc(manager) = RpcPool[1]
    /\ (FailedCurrent /\ CountOf(manager.whileCurrent, manager.last.rpc) >= 3) =>
            manager.currentIndex = (manager.last.before + 1) % Len(manager.rpcs)
    /\ (/\ manager.state = "ok" /\ manager.last.op = "reportFailure"
        /\ CountOf(manager.sinceSuccess, manager.last.rpc) < 3) =>
            manager.currentIndex = manager.last.before

\* The last of three URLs failed three times while current, after a
\* success had taken two earlier failures back: the first URL is current.
C31_Witness ==
    /\ FailedCurrent /\ Len(manager.rpcs) = 3
    /\ manager.last.before = 2 /\ manager.currentIndex = 0
    /\ CountOf(manager.whileCurrent, manager.last.rpc) = 3
    /\ CountOf(manager.sinceSuccess, manager.last.rpc) = 3
    /\ CountOf(manager.sinceSuccess, RpcPool[1]) = 0
    /\ RpcPool[1] \in DOMAIN manager.sinceSuccess

\* C39: the current index is an index of the list, a manager of one RPC
\* stays on it, and the current RPC changes only in a reportFailure call
\* for the RPC that was current when the call was made.
C39_RotatesOnCurrentOnly ==
    manager.state = "ok" =>
        /\ manager.currentIndex \in 0..(Len(manager.rpcs) - 1)
        /\ Len(manager.rpcs) = 1 => manager.currentIndex = 0
        /\ manager.currentIndex # manager.last.before =>
                /\ manager.last.op = "reportFailure"
                /\ manager.last.rpc = manager.rpcs[manager.last.before + 1]

\* The places of the values of args that the three positions name: an
\* argument, an element of an array argument, a field of a record element
\* of an array argument.
ThreePositions(args) ==
    {<<i>> : i \in {i \in 1..Len(args) : IsCandidate(args[i].value)}}
    \cup UNION {
        LET items == args[i].value.items IN
        {<<i, j>> : j \in {j \in 1..Len(items) : IsCandidate(items[j])}}
        \cup UNION {
            {<<i, j, k>> : k \in {k \in 1..Len(items[j].items) :
                                     IsCandidate(items[j].items[k])}} :
            j \in {j \in 1..Len(items) : items[j].kind = "object"}} :
        i \in {i \in 1..Len(args) : args[i].value.kind = "array"}}

\* C32: the values detectNestedCalls takes as candidates are exactly the
\* 0x strings longer than a selector that are an argument, an element of an
\* array argument, or a field of a record element of an array argument; a
\* string anywhere else (in an array inside an array, for one) is none.
C32_CandidatePositions ==
    {detect.examined[c].path : c \in 1..Len(detect.examined)} = ThreePositions(detect.args)

\* Place p comes before place q: an argument before the next, an element
\* before the next, a field before the next.
Before(p, q) ==
    \E n \in 1..3 :
        /\ n <= Len(p) /\ n <= Len(q)
        /\ SubSeq(p, 1, n - 1) = SubSeq(q, 1, n - 1)
        /\ p[n] < q[n]

RECURSIVE Preorder(_, _)
\* The entries of a nested list with their depth, an entry before the
\* entries below it and all of those before the next entry.
Preorder(nested, depth) ==
    IF nested = <<>> THEN <<>>
    ELSE <<[depth |-> depth, selector |-> Head(nested).selector]>>
         \o (IF IsSome(Head(nested).nested)
             THEN Preorder(Get(Head(nested).nested), depth + 1) ELSE <<>>)
         \o Preorder(Tail(nested), depth)

Decodes(value) == decodeFunctionData(ALL_ABIS, value.hex).kind = "ok"

\* C33: the candidates are taken in the order of the arguments, of the
\* elements within an array argument and of the fields within an element;
\* the nested list holds the ones that decode in that order; and the
\* calls below a candidate are all made before the next candidate is
\* looked at, so that the decodes that succeed are the tree read entry by
\* entry, each with everything below it first.
C33_DepthFirstInOrder ==
    /\ \A c \in 1..Len(detect.examined) : \A d \in 1..Len(detect.examined) :
            c < d => Before(detect.examined[c].path, detect.examined[d].path)
    /\ LET decoding == SelectSeq(detect.examined, LAMBDA e : Decodes(e.value)) IN
       /\ Len(detect.nested) = Len(decoding)
       /\ \A i \in 1..Len(decoding) :
              detect.nested[i].selector = Slice0to10(decoding[i].value.hex)
    /\ LET made == SelectSeq(detect.order, LAMBDA v : v.decoded) IN
       Preorder(detect.nested, 1) =
           [i \in 1..Len(made) |->
               [depth |-> made[i].depth, selector |-> made[i].selector]]

\* An array of two calls, the second with a call inside it, and a call as
\* the next argument: approve, execute with transfer below it, transfer.
C33_Witness ==
    /\ Len(detect.args) = 2 /\ Len(detect.examined) = 3
    /\ Len(detect.nested) = 3
    /\ detect.nested[1].selector = APPROVE_SELECTOR
    /\ detect.nested[2].selector = EXECUTE_SELECTOR
    /\ Len(Get(detect.nested[2].nested)) = 1
    /\ detect.nested[3].selector = TRANSFER_SELECTOR
    /\ detect.examined[3].path = <<2>>

\* C34: a plugin result with a nested list gives a DecodedCall whose nested
\* list has the same length and order, each entry with the name and the
\* params of its item; a plugin result without one gives a DecodedCall
\* without a nested list.
C34_PluginNestedKept ==
    (Returned /\ pluginResult.kind = "ok") =>
        LET given == Get(pluginResult.value).nested IN
        IF IsSome(given)
        THEN /\ IsSome(result.value.nested)
             /\ Len(Get(result.value.nested)) = Len(Get(given))
             /\ \A i \in 1..Len(Get(given)) :
                    /\ Get(result.value.nested)[i].functionName = Some(Get(given)[i].name)
                    /\ Get(result.value.nested)[i].args = Get(given)[i].params
                    /\ Get(result.value.nested)[i].nested = None
        ELSE result.value.nested = None

\* A plugin result with two nested items that differ.
C34_Witness ==
    /\ Returned /\ pluginResult.kind = "ok"
    /\ IsSome(result.value.nested) /\ Len(Get(result.value.nested)) = 2
    /\ Get(result.value.nested)[1].functionName = Some("inner")
    /\ Get(result.value.nested)[2].args # <<>>

\* The first decoder that matches gave nothing: null, or an exception.
FirstGaveNothing ==
    /\ found.kind = "found"
    /\ Decode(registeredDecoders[found.at].dec, payload).kind # "ok"

\* C35: when the decode of the first matching decoder returns nothing or
\* raises, no decoder after it is asked, whether it would match or not:
\* the plugin stage has no result, decode was called once, no match was
\* called past the first matching decoder, and the catalog stage is next.
C35_OnlyFirstMatchDecodes ==
    (pc = "done" /\ FirstGaveNothing) =>
        /\ pluginResult.kind = "null" /\ pluginResult.by = found.at
        /\ Cardinality({i \in 1..Len(log) : log[i].ev = "decode"}) = 1
        /\ \A i \in 1..Len(log) :
                log[i].ev \in {"match", "decode"} => log[i].who <= found.at
        /\ Logged("decodeFunctionData")
        /\ Returned => result.stage \in {"catalog", "cache"}

\* The first matching decoder raised, a decoder behind it matches too and
\* would have decoded the payload, and the catalog stage gave the result.
C35_Witness ==
    /\ pc = "done" /\ FirstGaveNothing /\ Returned
    /\ \E j \in Positions :
          /\ j > found.at /\ Matches(j)
          /\ Decode(registeredDecoders[j].dec, payload).kind = "ok"
    /\ result.stage = "catalog"

\* The same with a first matching decoder that returned null.
C35_NullCase ==
    /\ pc = "done" /\ FirstGaveNothing
    /\ Decode(registeredDecoders[found.at].dec, payload).kind = "null"
    /\ \E j \in Positions : j > found.at /\ Matches(j)

\* C36: loadAllDecoders replaces the content of the registry: what
\* registerDecoder added before is gone and the list holds what the two
\* directories give and nothing else; a second call right after the first,
\* on the same directories, leaves the list as the first call made it.
C36_LoadReplaces ==
    (registryOp = "loadAllDecoders" /\ IsSome(loadedFrom)) =>
        /\ \A i \in 1..Len(registeredDecoders) :
                registeredDecoders[i].origin \in {"project", "user"}
        /\ Len(registeredDecoders) =
               Len(loadDecodersFromDir(Get(loadedFrom).project))
               + Len(loadDecodersFromDir(Get(loadedFrom).user))
        /\ Get(loadedFrom).again => Get(loadedFrom).same

\* A decoder was registered, then loadAllDecoders ran twice in a row on
\* directories that give decoders.
C36_Witness ==
    /\ registryOp = "loadAllDecoders" /\ IsSome(loadedFrom)
    /\ Get(loadedFrom).again /\ Get(loadedFrom).hadRegistered
    /\ Len(registeredDecoders) = 2

\* The modules of a directory that are imported and export the decoder d
\* with the decoder shape, under whatever keys.
ModulesExporting(dir, d) ==
    IF dir.kind # "ok" THEN 0
    ELSE Cardinality({i \in 1..Len(dir.files) :
            /\ dir.files[i].isDecoderFile /\ dir.files[i].imports
            /\ \E j \in 1..Len(dir.files[i].exports) :
                    /\ HasDecoderShape(dir.files[i].exports[j])
                    /\ dir.files[i].exports[j].dec = d})

\* C37: after loadAllDecoders a decoder object is in the registry once per
\* module that exports it, however many export names the module gives it.
C37_OncePerModule ==
    (registryOp = "loadAllDecoders" /\ IsSome(loadedFrom)) =>
        \A d \in DecoderIds :
            /\ TimesRegistered(d, "project") = ModulesExporting(Get(loadedFrom).project, d)
            /\ TimesRegistered(d, "user") = ModulesExporting(Get(loadedFrom).user, d)

\* The calls that were suspended: their selector was not in the cache.
Suspended == {p \in Callers : Len(callers[p].remote) > 0}

KeyOf(p) == ToLowerCase(callers[p].selector)

C38_FailedWrite ==
    /\ Suspended = Callers
    /\ \A p \in Callers : callers[p].pc = "done"
    /\ \E p \in Callers : \E q \in Callers :
          /\ KeyOf(p) # KeyOf(q)
          /\ callers[p].wrote = "failed" /\ callers[q].wrote = "ok"
          /\ completions = <<p, q>>

\* C40: withRetry waits only between two attempts: a call that has ended
\* made one wait less than attempts (none when it made no attempt), and a
\* wait follows an error shouldRetry accepts at an attempt that is not the
\* last; the first wait is initialDelayMs and each later one is the one
\* before it times backoffMultiplier, at most maxDelayMs.
C40_WaitsBetweenAttempts ==
    LET waits == retry.waits IN
    /\ retry.pc = "done" =>
            \/ Len(waits) + 1 = retry.invocations
            \/ retry.invocations = 0 /\ waits = <<>>
    /\ retry.pc \in {"call", "sleep"} => Len(waits) = retry.invocations
    /\ \A i \in 1..Len(waits) :
            /\ i < retry.opts.maxAttempts
            /\ shouldRetry(retry.opts.shouldRetry, retry.thrown[i]) = "true"
    /\ waits # <<>> => waits[1] = retry.opts.initialDelayMs
    /\ \A i \in 1..(Len(waits) - 1) :
            waits[i + 1] = Min(waits[i] * retry.opts.backoffMultiplier,
                               retry.opts.maxDelayMs)

\* Three attempts with an initial delay of 6000: the waits are 6000 and
\* 10000, the second one capped.
C40_Witness ==
    /\ retry.pc = "done" /\ retry.invocations = 3
    /\ retry.waits = <<6000, 10000>>
    /\ retry.opts.maxDelayMs = 10000

\* An initial delay over maxDelayMs is the first wait as it is.
C40_FirstWaitUncapped ==
    /\ retry.pc = "done" /\ retry.waits = <<20000, 10000>>

====
